---- MODULE Spec2Model ----
(***************************************************************************)
(* A model of the MinuteMeet meeting analysis engine (backend/ai_service.py *)
(* class MeetingAI).                                                        *)
(*                                                                          *)
(* Text is modelled by the features the code reads from it.  A transcript   *)
(* handed to the summarizer is a layout: leading and trailing whitespace    *)
(* and a sequence of sentences, each a number of words.  A transcript       *)
(* handed to the extractor is the list of regex matches it yields, each a   *)
(* set of lower-cased words.  Calls to the pretrained models are inputs of  *)
(* the call: they fail or they answer.  The endpoint that serves a meeting  *)
(* (backend/main.py, process_meeting) validates the request body, runs the  *)
(* analysis and commits its rows to db.                                     *)
(***************************************************************************)
EXTENDS Integers, Sequences, FiniteSets, TLC

VARIABLES
    mock_mode,              \* MeetingAI.mock_mode
    self_summarizer,        \* whether __init__ got as far as setting MeetingAI.summarizer
    cached_health_status,   \* MeetingAI._cached_health_status
    last_health_check,      \* MeetingAI._last_health_check
    now,                    \* time.time(), in milliseconds
    request,                \* the call under way: operation and arguments
    ret,                    \* what the last call returned or raised
    prev,                   \* what the call before it returned, same arguments
    ncalls,                 \* calls made so far on this instance
    db,                     \* the committed rows of the tables meetings and action_items
    analysed,               \* requests whose analysis was run by process_meeting
    processing_tasks,       \* MeetingProcessor.processing_tasks, by task id
    in_flight               \* process_meeting requests between their two commits

vars == <<mock_mode, self_summarizer, cached_health_status, last_health_check, now, request, ret,
          prev, ncalls, db, analysed, processing_tasks, in_flight>>

self_fields == <<mock_mode, self_summarizer, cached_health_status, last_health_check>>

app_state == <<db, analysed, processing_tasks, in_flight>>

(***************************************************************************)
(* Helpers                                                                  *)
(***************************************************************************)
Range(s) == {s[i] : i \in DOMAIN s}

Min(a, b) == IF a <= b THEN a ELSE b

Max(a, b) == IF a >= b THEN a ELSE b

SeqsUpTo(S, n) == UNION {[1..k -> S] : k \in 0..n}

RECURSIVE SumSeq(_)
SumSeq(s) == IF s = <<>> THEN 0 ELSE Head(s) + SumSeq(Tail(s))

NoResult == [kind |-> "none"]

Return(v) == [kind |-> "return", value |-> v]

Raise(e, m) == [kind |-> "raise", error |-> e, msg |-> m]

(***************************************************************************)
(* Bounds of the summarizer inputs                                          *)
(***************************************************************************)
MaxPad == 1

MaxSents == 3

MaxSentWords == 3

LongSentWords == 60

WordChars == 3

(***************************************************************************)
(* Text values                                                              *)
(***************************************************************************)
Lit(s) == [form |-> "literal", s |-> s]

\* blanks, then sentences of so many words each, then blanks; ids tells the
\* sentences of one transcript apart
Excerpt(lead, sents, trail, ids) ==
    [form |-> "layout", lead |-> lead, sents |-> sents, trail |-> trail, ids |-> ids]

Layout(lead, sents, trail) == Excerpt(lead, sents, trail, [i \in DOMAIN sents |-> i])

\* a fixed text of so many words
Phrase(s, words, code) == [form |-> "phrase", s |-> s, words |-> words, code |-> code]

\* a text of shared + own + repeats words, without a full stop: shared words
\* that every such text has, own words that no other text has, and repeats
\* words that are said a second time
Bag(code, shared, own, repeats) ==
    [form |-> "bag", code |-> code, shared |-> shared, own |-> own, repeats |-> repeats]

\* a sentence of w words: the words, the blanks between them, the full stop
SentChars(w) == w * WordChars + (w - 1) + 1

\* the sentences joined by single blanks
CoreChars(sents) ==
    IF sents = <<>> THEN 0
    ELSE SumSeq([i \in DOMAIN sents |-> SentChars(sents[i])]) + (Len(sents) - 1)

\* len(text)
RECURSIVE TextLen(_)
TextLen(t) ==
    CASE t.form = "literal" -> Len(t.s)
      [] t.form = "phrase" -> Len(t.s)
      [] t.form = "layout" -> t.lead + CoreChars(t.sents) + t.trail
      [] t.form = "piece" -> IF t.words = 0 THEN 0 ELSE SentChars(t.words) - (IF t.dot THEN 0 ELSE 1)
      [] t.form = "cut" -> t.chars
      [] t.form = "bag" ->
             LET words == t.shared + t.own + t.repeats
             IN  IF words = 0 THEN 0 ELSE words * WordChars + (words - 1)
      [] t.form = "generated" -> t.min_length
      [] t.form = "combined" ->
             SumSeq([i \in DOMAIN t.parts |-> TextLen(t.parts[i])]) + 2 * (Len(t.parts) - 1)
             + (IF t.stop THEN 1 ELSE 0) + SumSeq([i \in DOMAIN t.tail |-> Len(t.tail[i].s)])

\* text.strip()
strip(t) == IF t.form = "layout" THEN Excerpt(0, t.sents, 0, t.ids) ELSE t

\* the length _fallback_summary cuts its summary to
FallbackCut == 200

\* the words of one sentence as text.split() gives them: the sentence, the
\* place in it, and whether the full stop is attached
SentTokens(id, words, dot) == {<<id, j, dot /\ j = words>> : j \in 1..words}

\* the words that lie whole in summary[:200], and the one token that ends
\* in the "..." put after the cut
CutTokens(summary) ==
    LET per == WordChars + 1
        start(p, j) == (IF p = 1 THEN 0 ELSE SentChars(summary.sents[1]) + 1) + (j - 1) * per
        end(p, j) == start(p, j) + WordChars + (IF j = summary.sents[p] THEN 1 ELSE 0)
        whole == {pj \in (DOMAIN summary.sents) \X (1..Max(summary.sents[1], summary.sents[2])) :
                     pj[2] <= summary.sents[pj[1]] /\ end(pj[1], pj[2]) < FallbackCut}
    IN  {<<summary.ids[pj[1]], pj[2], pj[2] = summary.sents[pj[1]]>> : pj \in whole}
        \cup {<<-3, 0, FALSE>>}

\* set(text.lower().split())
TokenSet(t) ==
    CASE t.form = "layout" -> UNION {SentTokens(t.ids[p], t.sents[p], TRUE) : p \in DOMAIN t.sents}
      [] t.form = "piece" -> SentTokens(t.id, t.words, t.dot)
      [] t.form = "cut" -> CutTokens(t.of)
      [] t.form = "generated" -> {<<0, j, FALSE>> : j \in 1..t.min_length}
      [] t.form = "phrase" -> {<<t.code, j, FALSE>> : j \in 1..t.words}
      [] t.form = "bag" -> {<<100, j, FALSE>> : j \in 1..t.shared}
                           \cup {<<t.code, j, FALSE>> : j \in 1..t.own}

\* len(text.split()); only in a bag does a word occur twice
WordCount(t) == Cardinality(TokenSet(t)) + (IF t.form = "bag" THEN t.repeats ELSE 0)

\* nltk sent_tokenize(text)
sent_tokenize(t) == IF t.form = "layout" THEN t.sents ELSE <<t.words>>

SentWords == (1..MaxSentWords) \cup {LongSentWords}

Transcripts ==
    {Layout(l, s, r) : l \in 0..MaxPad, s \in SeqsUpTo(SentWords, MaxSents), r \in 0..MaxPad}

(***************************************************************************)
(* MeetingAI._validate_input                                                *)
(***************************************************************************)
valid_types == <<"general", "executive", "sprint_planning", "budget", "client", "technical", "planning">>

MeetingTypes == Range(valid_types) \cup {"standup"}

MinTranscriptChars == 10

\* a variant that does not look at the meeting type
_validate_input_of_any_type(transcript, meeting_type) ==
    IF TextLen(transcript) = 0 \/ TextLen(strip(transcript)) = 0
    THEN Raise("ValueError", "Transcript cannot be empty")
    ELSE IF TextLen(strip(transcript)) < MinTranscriptChars
    THEN Raise("ValueError", "Transcript too short (minimum 10 characters)")
    ELSE Return(TRUE)

_validate_input(transcript, meeting_type) ==
    IF TextLen(transcript) = 0 \/ TextLen(strip(transcript)) = 0
    THEN Raise("ValueError", "Transcript cannot be empty")
    ELSE IF TextLen(strip(transcript)) < MinTranscriptChars
    THEN Raise("ValueError", "Transcript too short (minimum 10 characters)")
    ELSE IF meeting_type \notin Range(valid_types)
    THEN Raise("ValueError", "Invalid meeting type")
    ELSE Return(TRUE)

(***************************************************************************)
(* MeetingAI.summarize_meeting and its fallbacks                            *)
(***************************************************************************)
_mock_summary(transcript, meeting_type) ==
    Lit("Productive " \o meeting_type \o " meeting focused on key deliverables and next steps. Team discussed priorities and assigned clear action items for follow-up.")

\* a variant that has nothing to say of a transcript of one or two sentences
_fallback_summary_dropping_short(transcript, meeting_type) ==
    LET sentences == sent_tokenize(transcript)
    IN  IF Len(sentences) <= 2
        THEN Layout(0, <<>>, 0)
        ELSE Excerpt(0, <<sentences[1], sentences[Len(sentences)]>>, 0, <<1, Len(sentences)>>)

_fallback_summary(transcript, meeting_type) ==
    LET sentences == sent_tokenize(transcript)
        summary == Excerpt(0, <<sentences[1], sentences[Len(sentences)]>>, 0, <<1, Len(sentences)>>)
    IN  IF Len(sentences) <= 2
        THEN transcript
        ELSE IF TextLen(summary) > FallbackCut
             THEN [form |-> "cut", chars |-> FallbackCut + Len("..."), of |-> summary]
             ELSE summary

\* the min_length / max_length asked of the summarizer (lines 158-173)
SummarizeLengths(word_count) ==
    LET max_length == IF word_count < 50 THEN Min(80, Max(30, word_count \div 2))
                      ELSE IF word_count < 150 THEN Min(120, Max(60, word_count \div 2))
                      ELSE Min(180, Max(100, word_count \div 3))
        min_length == IF word_count < 50 THEN Min(25, Max(20, max_length \div 2))
                      ELSE IF word_count < 150 THEN Min(50, Max(40, max_length \div 2))
                      ELSE Min(70, Max(60, max_length \div 2))
    IN  [max_length |-> max_length,
         min_length |-> IF min_length >= max_length THEN Max(5, max_length - 5) ELSE min_length]

\* self.summarizer(transcript, max_length=..., min_length=...)[0]['summary_text']
Generated(lengths) ==
    [form |-> "generated", min_length |-> lengths.min_length, max_length |-> lengths.max_length]

summarize_meeting(mock, transcript, meeting_type, summarizer) ==
    LET valid == _validate_input(transcript, meeting_type)
    IN  IF valid.kind = "raise"
        THEN Return(Lit("Error: " \o valid.msg))
        ELSE IF mock
        THEN Return(_mock_summary(transcript, meeting_type))
        ELSE IF summarizer = "fail"
        THEN Return(_fallback_summary(transcript, meeting_type))
        ELSE Return(Generated(SummarizeLengths(WordCount(transcript))))

\* the engine after construction, before any call: __init__ enters mock mode
\* when loading raises (lines 91-93), before or after self.summarizer is set
InitSelf ==
    /\ mock_mode \in BOOLEAN
    /\ self_summarizer \in IF mock_mode THEN {"pipeline", "unset"} ELSE {"pipeline"}
    /\ cached_health_status = NoResult
    /\ last_health_check = 0
    /\ now = 0
    /\ ret = NoResult
    /\ prev = NoResult
    /\ ncalls = 0
    /\ db = [meetings |-> {}, action_items |-> {}]
    /\ analysed = 0
    /\ processing_tasks = <<>>
    /\ in_flight = {}

(***************************************************************************)
(* Bounds of the extractor inputs                                           *)
(***************************************************************************)
NumTopics == 2

MaxMatches == 6

MaxParticipants == 1

BasicPattern == 1

ExtPattern == 5

MaxRich == MaxMatches \div 2

(***************************************************************************)
(* Task texts: what one regex match captured.  A text of topic k > 0 has    *)
(* three words of its own; topic 0 is a one-word text.  It may end with one *)
(* priority keyword.  No word of the model is a substring of another, so    *)
(* Python's `keyword in text` is membership here.                           *)
(***************************************************************************)
TaskText(topic, kw) ==
    [form |-> "match", topic |-> topic, kw |-> kw, who |-> "", near |-> "", label |-> ""]

TopicWordCount(topic) == IF topic = 0 THEN 1 ELSE 3

KeywordWord(kw) == IF kw = "urgent" THEN <<-1, 1>> ELSE <<-1, 2>>

\* set(text.lower().split())
Words(t) ==
    IF t.form = "literal" THEN t.words
    ELSE {<<t.topic, j>> : j \in 1..TopicWordCount(t.topic)}
         \cup (IF t.kw = "" THEN {} ELSE {KeywordWord(t.kw)})

\* len(text.split())
TaskWordCount(t) == Cardinality(Words(t))

\* len(text)
TaskChars(t) ==
    IF t.form = "literal" THEN Len(t.s)
    ELSE TopicWordCount(t.topic) * WordChars + (TopicWordCount(t.topic) - 1)
         + (IF t.kw = "" THEN 0 ELSE 1 + Len(t.kw))

\* the priority and date vocabulary found in the text
Tokens(t) == IF t.form = "literal" \/ t.kw = "" THEN {} ELSE {t.kw}

TaskKeywords == {"", "urgent", "later"}

RichTexts == {TaskText(k, w) : k \in 0..NumTopics, w \in TaskKeywords}

Names == {"Sarah", "Bob (PM"}

\* name.lower(), for the names and the spellings of the model
Lower(name) ==
    CASE name = "Sarah" -> "sarah"
      [] name = "Mike" -> "mike"
      [] OTHER -> name

\* whether re.compile accepts the name as a pattern fragment
RegexSafe(name) == name # "Bob (PM"

ParticipantLists ==
    {p \in SeqsUpTo(Names, MaxParticipants) : \A i, j \in DOMAIN p : i # j => p[i] # p[j]}

(***************************************************************************)
(* What the extractor reads of a transcript: the matches of its patterns,   *)
(* the priority vocabulary outside the matches, and how the two model calls *)
(* behave.                                                                  *)
(***************************************************************************)
action_patterns ==
    <<"need to", "should", "will", "action item:", "follow up on", "prepare", "schedule",
      "can you", "please", "have to", "must", "going to", "plan to", "responsible for",
      "take care of", "handle", "work on", "focus on", "complete", "finish", "deliver",
      "implement", "create", "develop", "build">>

fallback_patterns == <<"need to", "should", "will", "action item:">>

\* re.findall(pattern, transcript, re.IGNORECASE)
findall(p, transcript) ==
    IF p = BasicPattern THEN transcript.basic
    ELSE IF p = ExtPattern THEN transcript.extended
    ELSE <<>>

RECURSIVE AllMatches(_, _)
AllMatches(p, transcript) ==
    IF p > Len(action_patterns) THEN <<>>
    ELSE findall(p, transcript) \o AllMatches(p + 1, transcript)

\* the keywords some part of transcript.lower() contains
TranscriptTokens(transcript) ==
    UNION {Tokens(m) : m \in Range(transcript.basic) \cup Range(transcript.extended)}
    \cup (IF transcript.basic # <<>> THEN {action_patterns[BasicPattern]} ELSE {})
    \cup (IF transcript.extended # <<>> THEN {action_patterns[ExtPattern]} ELSE {})
    \cup transcript.context

(***************************************************************************)
(* MeetingAI._is_similar_task_advanced                                      *)
(***************************************************************************)
JaccardAbove70(task1, task2) ==
    LET words1 == Words(task1)
        words2 == Words(task2)
        intersection == words1 \cap words2
        union == words1 \cup words2
    IN  union # {} /\ 10 * Cardinality(intersection) > 7 * Cardinality(union)

\* cosine_similarity(encode(task1), encode(task2)) > 0.8, for the two
\* encoders of the model: one that separates all distinct texts, one that
\* brings texts of one topic together
CosineAbove80(task1, task2, embed) ==
    IF embed = "exact" THEN task1 = task2 ELSE task1.topic = task2.topic

\* the lexical comparison with the threshold of the cosine comparison
JaccardAbove80(task1, task2) ==
    LET intersection == Words(task1) \cap Words(task2)
        union == Words(task1) \cup Words(task2)
    IN  union # {} /\ 10 * Cardinality(intersection) > 8 * Cardinality(union)

_is_similar_task_one_threshold(task1, task2, embed) ==
    IF embed = "fail" THEN JaccardAbove80(task1, task2)
    ELSE CosineAbove80(task1, task2, embed)

_is_similar_task_advanced(task1, task2, embed) ==
    IF embed = "fail" THEN JaccardAbove70(task1, task2)
    ELSE CosineAbove80(task1, task2, embed)

(***************************************************************************)
(* MeetingAI._extract_assignee_worldclass                                   *)
(***************************************************************************)
\* the first element of seq that satisfies Test, as a one-element sequence
FirstOf(seq, Test(_)) ==
    LET hits == {i \in DOMAIN seq : Test(seq[i])}
    IN  IF hits = {} THEN <<>> ELSE <<seq[CHOOSE i \in hits : \A j \in hits : i <= j]>>

_extract_assignee_worldclass(task, participants, embed) ==
    LET InTask(p) == p = task.who
        \* transcript sentences that contain the task, scanned for a participant
        InSentence(p) == p = task.near
        \* rf"({participant}):.*?{re.escape(task)}" found by a search that
        \* ignores case, or not compilable; task.label is the speaker label as
        \* the transcript spells it
        LabelOrError(p) == (~RegexSafe(p)) \/ (task.label # "" /\ Lower(p) = Lower(task.label))
        direct == FirstOf(participants, InTask)
        lexical == FirstOf(participants, InSentence)
        pattern == FirstOf(participants, LabelOrError)
    IN  IF direct # <<>> THEN Return(direct[1])
        ELSE IF embed = "fail" /\ lexical # <<>> THEN Return(lexical[1])
        ELSE IF pattern # <<>>
             THEN IF RegexSafe(pattern[1]) THEN Return(task.label)
                  ELSE Raise("re.error", "missing ), unterminated subpattern")
        ELSE IF participants # <<>> THEN Return(participants[1])
        ELSE Return("TBD")

(***************************************************************************)
(* MeetingAI._extract_due_date_worldclass                                   *)
(***************************************************************************)
\* the alternatives of each date pattern, in the order the code tries them
date_patterns ==
    <<{"by monday", "by tuesday", "by wednesday", "by thursday", "by friday", "by saturday", "by sunday"},
      {"by tomorrow", "by next week", "by friday", "by monday", "by end of week", "by this week"},
      {"1/2"},
      {"1-2"},
      {"january", "february", "march", "april", "may", "june", "july", "august",
       "september", "october", "november", "december"},
      {"next monday", "next tuesday", "next wednesday", "next thursday", "next friday"},
      {"end of month", "end of quarter", "end of year"},
      {"asap", "immediately", "urgent"},
      {"1st"},
      {"2024-01-15"},
      {"1/2/2024"}>>

\* match.group(1).title(), kept as the matched token
Title(token) == [title |-> token]

_extract_due_date_worldclass(task) ==
    LET hits == {i \in DOMAIN date_patterns : date_patterns[i] \cap Tokens(task) # {}}
        first == CHOOSE i \in hits : \A j \in hits : i <= j
    IN  IF hits = {} THEN [title |-> "TBD"]
        ELSE Title(CHOOSE token \in date_patterns[first] \cap Tokens(task) : TRUE)

(***************************************************************************)
(* MeetingAI._determine_priority_worldclass                                 *)
(***************************************************************************)
\* the list with "urgent" named once
high_priority_keywords_once ==
    <<"urgent", "asap", "immediately", "critical", "important", "priority",
      "deadline", "due", "must", "need to", "have to", "essential",
      "emergency", "crisis", "top priority", "high priority">>

high_priority_keywords ==
    <<"urgent", "asap", "immediately", "critical", "important", "priority",
      "deadline", "due", "must", "need to", "have to", "essential",
      "emergency", "crisis", "urgent", "top priority", "high priority">>

low_priority_keywords ==
    <<"when possible", "eventually", "sometime", "later", "when you can",
      "if time permits", "optional", "nice to have", "low priority">>

\* sum(1 for keyword in keywords if keyword in text)
CountIn(keywords, tokens) == Cardinality({i \in DOMAIN keywords : keywords[i] \in tokens})

\* a variant in which a keyword of the task weighs 1, twice a keyword of
\* the transcript
PriorityOfHalfWeight(task_tokens, transcript_tokens) ==
    LET high_count == CountIn(high_priority_keywords, task_tokens)
        high_context_count == CountIn(high_priority_keywords, transcript_tokens)
        low_count == CountIn(low_priority_keywords, task_tokens)
        low_context_count == CountIn(low_priority_keywords, transcript_tokens)
        high_score == high_count * 2 + high_context_count
        low_score == low_count * 2 + low_context_count
    IN  IF high_score > low_score /\ high_score > 2 THEN "high"
        ELSE IF low_score > high_score /\ low_score > 2 THEN "low"
        ELSE "medium"

\* scores are kept doubled: 2 * (count * 2 + context_count * 0.5)
PriorityOf(task_tokens, transcript_tokens) ==
    LET high_count == CountIn(high_priority_keywords, task_tokens)
        high_context_count == CountIn(high_priority_keywords, transcript_tokens)
        low_count == CountIn(low_priority_keywords, task_tokens)
        low_context_count == CountIn(low_priority_keywords, transcript_tokens)
        high_score == high_count * 4 + high_context_count
        low_score == low_count * 4 + low_context_count
    IN  IF high_score > low_score /\ high_score > 2 THEN "high"
        ELSE IF low_score > high_score /\ low_score > 2 THEN "low"
        ELSE "medium"

_determine_priority_worldclass(task, transcript) ==
    PriorityOf(Tokens(task), TranscriptTokens(transcript))

(***************************************************************************)
(* MeetingAI.extract_action_items                                           *)
(***************************************************************************)
MinTaskChars == 10

MaxActionItems == 5

\* f"ai_{int(time.time() * 1000)}_{n:03d}"
ItemId(ms, n) == <<"ai", ms, n>>

\* the id numbered by the position of the match in its pattern's matches
NextIdByMatchIndex(ms, action_items, i) == ItemId(ms, i)

\* the id numbered by the items accepted so far
NextId(ms, action_items, i) == ItemId(ms, Len(action_items) + 1)

\* the clock read while the k-th item of a call is built
ClockAt(t0, ticks, k) == IF ticks THEN t0 + k ELSE t0

\* a variant in which a candidate takes the place of the accepted items it
\* duplicates
RECURSIVE MainLoopKeepingLast(_, _, _, _, _, _, _)
MainLoopKeepingLast(matches, i, action_items, transcript, participants, t0, built) ==
    IF matches = <<>> THEN action_items
    ELSE LET clean_match == Head(matches)
             action_item ==
                 [id |-> NextId(ClockAt(t0, transcript.ticks, built), action_items, i),
                  task |-> clean_match,
                  assignee |-> _extract_assignee_worldclass(clean_match, participants,
                                                            transcript.embed).value,
                  due_date |-> _extract_due_date_worldclass(clean_match),
                  priority |-> _determine_priority_worldclass(clean_match, transcript),
                  status |-> "pending"]
             Similar(k) == _is_similar_task_advanced(action_items[k].task, clean_match,
                                                     transcript.embed)
         IN  IF TaskChars(clean_match) < MinTaskChars
             THEN MainLoopKeepingLast(Tail(matches), i + 1, action_items, transcript,
                                      participants, t0, built)
             ELSE IF \E k \in DOMAIN action_items : Similar(k)
             THEN MainLoopKeepingLast(Tail(matches), i + 1,
                                      [k \in DOMAIN action_items |->
                                          IF Similar(k) THEN action_item ELSE action_items[k]],
                                      transcript, participants, t0, built + 1)
             ELSE MainLoopKeepingLast(Tail(matches), i + 1, Append(action_items, action_item),
                                      transcript, participants, t0, built + 1)

\* lines 1053-1074, for the matches still to be handled; built counts the
\* items built so far in this call, i the index of the match in its pattern
RECURSIVE MainLoop(_, _, _, _, _, _, _)
MainLoop(matches, i, action_items, transcript, participants, t0, built) ==
    IF matches = <<>> THEN action_items
    ELSE LET clean_match == Head(matches)
             action_item ==
                 [id |-> NextId(ClockAt(t0, transcript.ticks, built), action_items, i),
                  task |-> clean_match,
                  assignee |-> _extract_assignee_worldclass(clean_match, participants,
                                                            transcript.embed).value,
                  due_date |-> _extract_due_date_worldclass(clean_match),
                  priority |-> _determine_priority_worldclass(clean_match, transcript),
                  status |-> "pending"]
             duplicate == \E k \in DOMAIN action_items :
                              _is_similar_task_advanced(action_items[k].task, clean_match,
                                                        transcript.embed)
         IN  IF TaskChars(clean_match) < MinTaskChars
             THEN MainLoop(Tail(matches), i + 1, action_items, transcript, participants, t0, built)
             ELSE IF duplicate
             THEN MainLoop(Tail(matches), i + 1, action_items, transcript, participants, t0,
                           built + 1)
             ELSE MainLoop(Tail(matches), i + 1, Append(action_items, action_item), transcript,
                           participants, t0, built + 1)

\* all patterns in order (lines 1051-1074)
RECURSIVE PatternLoop(_, _, _, _, _, _)
PatternLoop(p, action_items, transcript, participants, t0, built) ==
    IF p > Len(action_patterns) THEN action_items
    ELSE LET matches == findall(p, transcript)
             after == MainLoop(matches, 0, action_items, transcript, participants, t0, built)
             handled == Cardinality({k \in DOMAIN matches : TaskChars(matches[k]) >= MinTaskChars})
         IN  PatternLoop(p + 1, after, transcript, participants, t0, built + handled)

\* the sort without reverse=True
SortByPriorityAscending(action_items) ==
    SelectSeq(action_items, LAMBDA item : item.priority = "low")
    \o SelectSeq(action_items, LAMBDA item : item.priority # "low" /\ item.priority # "high")
    \o SelectSeq(action_items, LAMBDA item : item.priority = "high")

priority_order(priority) ==
    CASE priority = "high" -> 3
      [] priority = "medium" -> 2
      [] priority = "low" -> 1
      [] OTHER -> 2

\* items of rank r, in their order in the list
OfRank(action_items, r) ==
    SelectSeq(action_items, LAMBDA item : priority_order(item.priority) = r)

\* list.sort(key=priority_order, reverse=True): stable
SortByPriority(action_items) ==
    OfRank(action_items, 3) \o OfRank(action_items, 2) \o OfRank(action_items, 1)

\* list[:n]
Take(seq, n) == SubSeq(seq, 1, Min(n, Len(seq)))

\* the main path ends in an exception when the assignee of some handled
\* match cannot be worked out
MainPathRaises(transcript, participants) ==
    \E m \in Range(AllMatches(1, transcript)) :
        /\ TaskChars(m) >= MinTaskChars
        /\ _extract_assignee_worldclass(m, participants, transcript.embed).kind = "raise"

(***************************************************************************)
(* MeetingAI._fallback_action_extraction                                    *)
(***************************************************************************)
RECURSIVE FallbackLoop(_, _, _, _, _, _)
FallbackLoop(matches, i, action_items, participants, t0, ticks) ==
    IF matches = <<>> THEN action_items
    ELSE LET action_item ==
                 [id |-> NextId(ClockAt(t0, ticks, Len(action_items)), action_items, i),
                  task |-> Head(matches),
                  assignee |-> IF participants # <<>>
                               THEN participants[(i % Len(participants)) + 1]
                               ELSE "TBD",
                  due_date |-> [title |-> "TBD"],
                  priority |-> "medium",
                  status |-> "pending"]
         IN  FallbackLoop(Tail(matches), i + 1, Append(action_items, action_item),
                          participants, t0, ticks)

RECURSIVE FallbackPatterns(_, _, _, _, _)
FallbackPatterns(p, action_items, transcript, participants, t0) ==
    IF p > Len(fallback_patterns) THEN action_items
    ELSE FallbackPatterns(p + 1,
                          FallbackLoop(findall(p, transcript), 0, action_items, participants,
                                       t0, transcript.ticks),
                          transcript, participants, t0)

_fallback_action_extraction(transcript, participants, t0) ==
    Take(FallbackPatterns(1, <<>>, transcript, participants, t0), MaxActionItems)

(***************************************************************************)
(* MeetingAI._mock_action_items                                             *)
(***************************************************************************)
MockTask(s, words) == [form |-> "literal", s |-> s, words |-> words]

_mock_action_items(transcript, participants) ==
    <<[id |-> <<"ai", 1>>,
       task |-> MockTask("Prepare Q4 budget proposal", {"prepare", "q4", "budget", "proposal"}),
       assignee |-> IF Len(participants) > 0 THEN participants[1] ELSE "John",
       due_date |-> [title |-> "2024-01-15"], priority |-> "high", status |-> "pending"],
      [id |-> <<"ai", 2>>,
       task |-> MockTask("Schedule client follow-up meeting",
                         {"schedule", "client", "follow-up", "meeting"}),
       assignee |-> IF Len(participants) > 1 THEN participants[2] ELSE "Sarah",
       due_date |-> [title |-> "2024-01-12"], priority |-> "medium", status |-> "pending"],
      [id |-> <<"ai", 3>>,
       task |-> MockTask("Update project timeline", {"update", "project", "timeline"}),
       assignee |-> IF Len(participants) > 2 THEN participants[3] ELSE "Mike",
       due_date |-> [title |-> "2024-01-18"], priority |-> "medium", status |-> "pending"]>>

extract_action_items_untruncated(mock, transcript, participants, t0) ==
    IF mock THEN _mock_action_items(transcript, participants)
    ELSE IF MainPathRaises(transcript, participants)
    THEN _fallback_action_extraction(transcript, participants, t0)
    ELSE SortByPriority(PatternLoop(1, <<>>, transcript, participants, t0, 0))

extract_action_items(mock, transcript, participants, t0) ==
    IF mock THEN _mock_action_items(transcript, participants)
    ELSE IF MainPathRaises(transcript, participants)
    THEN _fallback_action_extraction(transcript, participants, t0)
    ELSE Take(SortByPriority(PatternLoop(1, <<>>, transcript, participants, t0, 0)),
              MaxActionItems)

(***************************************************************************)
(* Specifications of the extractor: transcripts of a few matches of every   *)
(* kind (SpecActions); transcripts of many unrelated tasks are handled      *)
(* together with the health score (SpecAnalysis)                            *)
(***************************************************************************)
Embeds == {"fail", "exact", "topical"}

ExtractorView(matches, nBasic, embed, ticks) ==
    [basic |-> SubSeq(matches, 1, nBasic),
     extended |-> SubSeq(matches, nBasic + 1, Len(matches)),
     context |-> {},
     embed |-> embed,
     ticks |-> ticks]

RichTranscripts ==
    {ExtractorView(m, n, e, t) :
        <<m, n>> \in {<<m, n>> \in SeqsUpTo(RichTexts, MaxRich) \X (0..MaxRich) : n <= Len(m)},
        e \in Embeds, t \in BOOLEAN}

\* n tasks of n different topics, each with any keyword
LongMatches == UNION {{[i \in 1..n |-> TaskText(i, kws[i])] : kws \in [1..n -> TaskKeywords]} :
                      n \in 0..MaxMatches}

LongTranscripts ==
    {ExtractorView(m, n, e, FALSE) : <<m, n>> \in {<<m, n>> \in LongMatches \X {0, MaxMatches} :
                                                    n = 0 \/ n = Len(m)},
                                     e \in {"fail", "exact"}}

ActionRequests(transcripts) ==
    [op : {"extract_action_items"}, transcript : transcripts, participants : ParticipantLists]

InitActions ==
    /\ InitSelf
    /\ request \in ActionRequests(RichTranscripts)
    /\ mock_mode => Len(request.transcript.basic) + Len(request.transcript.extended) <= 1

MaxCalls == 2

\* a variant that keeps the tasks of the previous call and skips them
ExtractActionItemsRememberingTasks ==
    /\ request.op = "extract_action_items"
    /\ ncalls < MaxCalls
    /\ ret' = Return(SelectSeq(extract_action_items(mock_mode, request.transcript,
                                                    request.participants, now),
                               LAMBDA item : ret.kind = "return" =>
                                   \A k \in DOMAIN ret.value : ret.value[k].task # item.task))
    /\ prev' = ret
    /\ now' = now + 1
    /\ ncalls' = ncalls + 1
    /\ UNCHANGED <<self_fields, app_state, request>>

ExtractActionItems ==
    /\ request.op = "extract_action_items"
    /\ ncalls < MaxCalls
    /\ ret' = Return(extract_action_items(mock_mode, request.transcript, request.participants, now))
    /\ prev' = ret
    /\ now' = now + 1
    /\ ncalls' = ncalls + 1
    /\ UNCHANGED <<self_fields, app_state, request>>

NextActions == ExtractActionItems

SpecActions == InitActions /\ [][NextActions]_vars

(***************************************************************************)
(* MeetingAI.calculate_health_score.  Scores are kept in tenths.            *)
(***************************************************************************)
MaxWords == 2

LargeWordCount == 201

MaxDuration == 2

LongDuration == 60

MaxAttendees == 6

MaxHits == 1

decision_keywords ==
    <<"decided", "agreed", "concluded", "resolved", "approved", "rejected", "confirmed", "finalized">>

engagement_keywords ==
    <<"discuss", "review", "analyze", "evaluate", "consider", "explore", "brainstorm", "collaborate">>

\* len(transcript.split()): the words of the captured task texts and the
\* words outside them
SplitCount(transcript) ==
    transcript.other_words
    + SumSeq([k \in DOMAIN AllMatches(1, transcript) |-> TaskWordCount(AllMatches(1, transcript)[k])])

_mock_health_score(transcript, duration, participant_count) ==
    LET base_score == 75
        long == IF SplitCount(transcript) > 200 THEN 10 ELSE 0
        crowd == IF participant_count > 3 THEN 5 ELSE 0
        brief == IF duration < 60 THEN 5 ELSE 0
    IN  Min(base_score + long + crowd + brief, 100)

\* the time efficiency adjustment (lines 1113-1118); content_density is
\* word_count / (duration / 60), so density / 12 is 5 * word_count / duration,
\* which exceeds 2.0 whenever the density exceeds 25
DensityAdjustment(word_count, duration) ==
    IF duration > 0
    THEN IF 60 * word_count > 25 * duration
         THEN Min((50 * word_count) \div duration, 20)
         ELSE IF 60 * word_count < 15 * duration THEN -8 ELSE 0
    ELSE 0

\* the score before the final min(score, 10.0)
HealthSum(transcript, duration, participant_count, t0) ==
    LET action_items == Len(extract_action_items(FALSE, transcript, <<>>, t0))
        decisions == transcript.decisions
        engagement == transcript.engagement
        questions == transcript.questions
        specificity == transcript.specificity
    IN  50
        + (IF action_items > 0 THEN Min(action_items * 7, 30) ELSE 0)
        + Min(decisions * 5, 25)
        + (IF participant_count > 2 THEN Min((participant_count - 2) * 4, 15) ELSE 0)
        + DensityAdjustment(SplitCount(transcript), duration)
        + Min(engagement * 3, 15)
        + (IF questions > 0 THEN Min(questions * 2, 10) ELSE 0)
        + Min(specificity * 1, 10)

calculate_health_score_unclamped(mock, transcript, duration, participant_count, t0) ==
    IF mock THEN _mock_health_score(transcript, duration, participant_count)
    ELSE HealthSum(transcript, duration, participant_count, t0)

calculate_health_score(mock, transcript, duration, participant_count, t0) ==
    IF mock THEN _mock_health_score(transcript, duration, participant_count)
    ELSE Min(HealthSum(transcript, duration, participant_count, t0), 100)

(***************************************************************************)
(* Specification of the health score and of extraction from transcripts of  *)
(* many tasks                                                               *)
(***************************************************************************)
\* what the scorer counts in a transcript, beside what the extractor reads;
\* every match has at least its trigger word outside the captured text
Scored(view, other_words, decisions, engagement, questions, specificity) ==
    [basic |-> view.basic, extended |-> view.extended, context |-> view.context,
     embed |-> view.embed, ticks |-> view.ticks,
     other_words |-> other_words, decisions |-> decisions, engagement |-> engagement,
     questions |-> questions, specificity |-> specificity]

PlainTranscripts ==
    {ExtractorView([i \in 1..n |-> TaskText(i, "")], n, "fail", FALSE) : n \in 0..MaxMatches}

ScoredTranscripts ==
    {Scored(v, Len(v.basic) + w, d, e, q, s) :
        v \in PlainTranscripts,
        w \in (0..MaxWords) \cup {LargeWordCount},
        d \in 0..Min(MaxHits, Len(decision_keywords)),
        e \in 0..Min(MaxHits, Len(engagement_keywords)),
        q \in {0, MaxHits},
        s \in {0, MaxHits}}

HealthRequests ==
    [op : {"calculate_health_score"}, transcript : ScoredTranscripts,
     duration : (-1..MaxDuration) \cup {LongDuration}, participant_count : 0..MaxAttendees]

InitAnalysis ==
    /\ InitSelf
    /\ request \in ActionRequests(LongTranscripts) \cup HealthRequests
    /\ mock_mode => /\ Len(request.transcript.basic) + Len(request.transcript.extended) <= 1
                    /\ request.op = "calculate_health_score" =>
                           /\ request.transcript.decisions = 0
                           /\ request.transcript.engagement = 0
                           /\ request.transcript.questions = 0
                           /\ request.transcript.specificity = 0

CalculateHealthScore ==
    /\ request.op = "calculate_health_score"
    /\ ncalls < MaxCalls
    /\ ret' = Return(calculate_health_score(mock_mode, request.transcript, request.duration,
                                            request.participant_count, now))
    /\ prev' = ret
    /\ now' = now + 1
    /\ ncalls' = ncalls + 1
    /\ UNCHANGED <<self_fields, app_state, request>>

NextAnalysis == ExtractActionItems \/ CalculateHealthScore

SpecAnalysis == InitAnalysis /\ [][NextAnalysis]_vars

(***************************************************************************)
(* MeetingAI.ensemble_summarize.  The sentences of the model's transcripts  *)
(* are made of plain words: none of the keyword lists, names, digits or     *)
(* patterns of the code occurs in them.                                     *)
(***************************************************************************)
\* the min_length / max_length of _enhanced_bart_summarize (lines 225-240)
\* a variant whose max_length has no lower limit
EnhancedLengthsWithoutFloor(word_count) ==
    LET max_length == IF word_count < 50 THEN Min(40, word_count \div 2)
                      ELSE IF word_count < 150 THEN Min(80, word_count \div 2)
                      ELSE Min(120, word_count \div 3)
        min_length == IF word_count < 50 THEN Min(15, Max(10, max_length \div 2))
                      ELSE IF word_count < 150 THEN Min(30, Max(20, max_length \div 2))
                      ELSE Min(50, Max(30, max_length \div 2))
    IN  [max_length |-> max_length,
         min_length |-> IF min_length >= max_length THEN Max(5, max_length - 5) ELSE min_length]

EnhancedLengths(word_count) ==
    LET max_length == IF word_count < 50 THEN Min(40, Max(20, word_count \div 2))
                      ELSE IF word_count < 150 THEN Min(80, Max(40, word_count \div 2))
                      ELSE Min(120, Max(60, word_count \div 3))
        min_length == IF word_count < 50 THEN Min(15, Max(10, max_length \div 2))
                      ELSE IF word_count < 150 THEN Min(30, Max(20, max_length \div 2))
                      ELSE Min(50, Max(30, max_length \div 2))
    IN  [max_length |-> max_length,
         min_length |-> IF min_length >= max_length THEN Max(5, max_length - 5) ELSE min_length]

_enhanced_bart_summarize(transcript, meeting_type, summarizer) ==
    IF summarizer = "fail" THEN _fallback_summary(transcript, meeting_type)
    ELSE Generated(EnhancedLengths(WordCount(transcript)))

\* transcript.split('. ')
SplitSentences(t) ==
    LET n == Len(t.sents)
        blank == [form |-> "piece", id |-> 0, words |-> 0, dot |-> FALSE]
    IN  IF n = 0 THEN <<blank>>
        ELSE [k \in 1..n |->
                 LET piece == [form |-> "piece", id |-> t.ids[k], words |-> t.sents[k],
                               dot |-> (k = n /\ t.trail = 0)]
                 IN  IF "keywords" \in DOMAIN t THEN piece @@ [keywords |-> t.keywords[k]]
                     ELSE piece]
             \o (IF t.trail > 0 THEN <<blank>> ELSE <<>>)

\* lines 300-307; i counts from 0
PositionScore(i, n) ==
    IF i = 0 THEN 3
    ELSE IF i = n - 1 THEN 2
    ELSE IF 10 * i < 3 * n THEN 2
    ELSE IF 10 * i < 7 * n THEN 1
    ELSE 0

\* lines 310-316
LengthScore(word_count) ==
    IF 15 <= word_count /\ word_count <= 35 THEN 3
    ELSE IF 10 <= word_count /\ word_count <= 50 THEN 2
    ELSE IF 5 <= word_count /\ word_count <= 60 THEN 1
    ELSE 0

\* what the keywords, the extra marks and the filler words of a sentence add
\* to its score (lines 288-297 and 318-347), in halves of a point: a sentence
\* of plain words has none of them
KeywordHalves(sentence) ==
    IF "keywords" \in DOMAIN sentence THEN sentence.keywords ELSE 0

\* the score of a sentence, in halves of a point: its keywords, its place,
\* its length, and sentence.endswith('.')
SentenceScore(sentence, i, n) ==
    KeywordHalves(sentence)
    + 2 * (PositionScore(i, n) + LengthScore(sentence.words) + (IF sentence.dot THEN 1 ELSE 0))

\* if score > 4 (line 351), in halves of a point
KeyThreshold == 2 * 4

\* scored_sentences[:5] (line 357)
TopSentences == 5

\* scored_sentences.sort(key=score, reverse=True): stable
RECURSIVE ByScoreFrom(_, _)
ByScoreFrom(scored_sentences, r) ==
    IF r < 0 THEN <<>>
    ELSE SelectSeq(scored_sentences, LAMBDA e : e.score = r) \o ByScoreFrom(scored_sentences, r - 1)

\* a variant that accepts a sentence scoring exactly the threshold
_extract_key_sentences_at_threshold(transcript) ==
    LET sentences == SplitSentences(transcript)
        n == Len(sentences)
        all == [k \in 1..n |-> [sentence |-> sentences[k],
                                score |-> SentenceScore(sentences[k], k - 1, n)]]
        scored_sentences == SelectSeq(all, LAMBDA e : e.sentence.words > 0 /\ e.score >= KeyThreshold)
        top == IF scored_sentences = <<>> THEN 0
               ELSE CHOOSE r \in {scored_sentences[k].score : k \in DOMAIN scored_sentences} :
                        \A k \in DOMAIN scored_sentences : scored_sentences[k].score <= r
        sorted == ByScoreFrom(scored_sentences, top)
    IN  [k \in 1..Min(TopSentences, Len(sorted)) |-> sorted[k].sentence]

_extract_key_sentences_realistic(transcript) ==
    LET sentences == SplitSentences(transcript)
        n == Len(sentences)
        all == [k \in 1..n |-> [sentence |-> sentences[k],
                                score |-> SentenceScore(sentences[k], k - 1, n)]]
        scored_sentences == SelectSeq(all, LAMBDA e : e.sentence.words > 0 /\ e.score > KeyThreshold)
        top == IF scored_sentences = <<>> THEN 0
               ELSE CHOOSE r \in {scored_sentences[k].score : k \in DOMAIN scored_sentences} :
                        \A k \in DOMAIN scored_sentences : scored_sentences[k].score <= r
        sorted == ByScoreFrom(scored_sentences, top)
    IN  [k \in 1..Min(TopSentences, Len(sorted)) |-> sorted[k].sentence]

\* what the type-specific extractors return when none of their patterns
\* matches (lines 741-890)
_create_type_specific_summary(transcript, meeting_type) ==
    CASE meeting_type = "budget" ->
             Phrase("Budget meeting focused on financial planning and resource allocation.", 9, -1)
      [] meeting_type = "planning" ->
             Phrase("Planning meeting focused on project coordination and task assignment.", 9, -1)
      [] meeting_type = "executive" ->
             Phrase("Executive meeting focused on strategic planning and organizational direction.", 9, -1)
      [] meeting_type = "client" ->
             Phrase("Client meeting focused on issue resolution and relationship management.", 9, -1)
      [] OTHER ->
             Phrase("Meeting focused on team coordination and project management.", 8, -1)

\* what the extractor reads of a transcript of plain words
NoMatches == ExtractorView(<<>>, 0, "fail", FALSE)

_create_action_focused_summary(mock, transcript, t0) ==
    LET actions == extract_action_items(mock, NoMatches, <<>>, t0)
    IN  IF actions # <<>>
        THEN Phrase("Key actions: Prepare Q4 budget proposal, Schedule client follow-up meeting, Update project timeline",
                    13, -2)
        ELSE Phrase("Meeting resulted in clear action items and next steps.", 9, -2)

\* a variant that measures the shared tokens against the distinct tokens of
\* the content
RECURSIVE DeduplicateByTokenSet(_, _)
DeduplicateByTokenSet(all_content, unique_content) ==
    IF all_content = <<>> THEN unique_content
    ELSE LET content == Head(all_content)
             is_duplicate ==
                 \E k \in DOMAIN unique_content :
                     10 * Cardinality(TokenSet(content) \cap TokenSet(unique_content[k]))
                         > 7 * Cardinality(TokenSet(content))
         IN  DeduplicateByTokenSet(Tail(all_content),
                                   IF ~is_duplicate /\ WordCount(content) > 8
                                   THEN Append(unique_content, content)
                                   ELSE unique_content)

\* lines 384-402
RECURSIVE Deduplicate(_, _)
Deduplicate(all_content, unique_content) ==
    IF all_content = <<>> THEN unique_content
    ELSE LET content == Head(all_content)
             is_duplicate ==
                 \E k \in DOMAIN unique_content :
                     10 * Cardinality(TokenSet(content) \cap TokenSet(unique_content[k]))
                         > 7 * WordCount(content)
         IN  Deduplicate(Tail(all_content),
                         IF ~is_duplicate /\ WordCount(content) > 8
                         THEN Append(unique_content, content)
                         ELSE unique_content)

meeting_contexts(meeting_type) ==
    CASE meeting_type = "executive" ->
             Phrase(" This executive meeting covered critical strategic decisions, budget allocations, and key performance targets that will drive organizational growth and competitive advantage.", 21, -4)
      [] meeting_type = "planning" ->
             Phrase(" This planning meeting focused on project roadmap development, resource allocation, timeline optimization, and team coordination for successful delivery.", 18, -4)
      [] meeting_type = "technical" ->
             Phrase(" This technical meeting addressed system architecture improvements, performance optimization, security enhancements, and implementation strategies.", 14, -4)
      [] meeting_type = "budget" ->
             Phrase(" This budget meeting covered financial planning, cost analysis, resource allocation, and investment decisions for optimal fiscal management.", 17, -4)
      [] OTHER ->
             Phrase(" This meeting covered important project discussions, strategic planning decisions, and key action items requiring immediate attention and follow-up.", 18, -4)

\* how many of the business_terms each meeting context contains
ContextTerms(meeting_type) ==
    CASE meeting_type = "executive" -> 7
      [] meeting_type = "planning" -> 7
      [] meeting_type = "technical" -> 7
      [] meeting_type = "budget" -> 4
      [] OTHER -> 5

additional_context ==
    Phrase(" Key outcomes included strategic decisions, action items, and project milestones that will drive organizational success and competitive advantage.", 18, -5)

fallback_contexts(meeting_type) ==
    CASE meeting_type = "executive" ->
             Phrase("Executive meeting focused on strategic leadership decisions, organizational direction, and high-level planning initiatives.", 13, -6)
      [] meeting_type = "planning" ->
             Phrase("Planning meeting covered project coordination, resource management, and timeline optimization strategies.", 11, -6)
      [] meeting_type = "technical" ->
             Phrase("Technical meeting addressed system improvements, performance optimization, and implementation strategies.", 10, -6)
      [] meeting_type = "budget" ->
             Phrase("Budget meeting covered financial planning, cost management, and resource allocation decisions.", 11, -6)
      [] OTHER ->
             Phrase("Meeting focused on important project discussions, strategic planning, and team coordination.", 11, -6)

\* text.endswith('.'); the generated summaries of the model end in a full stop
EndsWithStop(t) ==
    CASE t.form = "layout" -> t.sents # <<>> /\ t.trail = 0
      [] t.form = "piece" -> t.dot
      [] t.form = "bag" -> FALSE
      [] OTHER -> TRUE

\* the text ends in a blank, so that a full stop put after it is a word of
\* its own for split()
EndsBlank(t) == t.form = "layout" /\ t.trail > 0

_realistic_combination(bart_summary, key_sentences, type_specific, action_focused, meeting_type) ==
    LET Kept(t, least) == IF TextLen(t) > 0 /\ WordCount(t) > least THEN <<t>> ELSE <<>>
        all_content == Kept(bart_summary, 20)
                       \o SelectSeq(key_sentences, LAMBDA sentence : WordCount(sentence) > 10)
                       \o Kept(type_specific, 15)
                       \o Kept(action_focused, 15)
        unique_content == Deduplicate(all_content, <<>>)
        final_parts == Take(unique_content, 4)
        stop == ~EndsWithStop(final_parts[Len(final_parts)])
        word_count == SumSeq([k \in DOMAIN final_parts |-> WordCount(final_parts[k])])
                      + Cardinality({k \in DOMAIN final_parts : EndsBlank(final_parts[k])})
        context == IF word_count < 50 THEN <<meeting_contexts(meeting_type)>> ELSE <<>>
        \* the parts of the model hold no business term
        found_terms == IF word_count < 50 THEN ContextTerms(meeting_type) ELSE 0
        quality == IF found_terms < 8 THEN <<additional_context>> ELSE <<>>
    IN  IF unique_content # <<>>
        THEN [form |-> "combined", parts |-> final_parts, stop |-> stop, tail |-> context \o quality]
        ELSE fallback_contexts(meeting_type)

ensemble_summarize(mock, transcript, meeting_type, summarizer, t0) ==
    LET bart_summary == _enhanced_bart_summarize(transcript, meeting_type, summarizer)
        key_sentences == _extract_key_sentences_realistic(transcript)
        type_specific == _create_type_specific_summary(transcript, meeting_type)
        action_focused == _create_action_focused_summary(mock, transcript, t0)
    IN  _realistic_combination(bart_summary, key_sentences, type_specific, action_focused,
                               meeting_type)

(***************************************************************************)
(* Specification of the merge of the candidates, _realistic_combination     *)
(***************************************************************************)
\* the texts a strategy may hand to the merge: none, or up to 8 shared, 13
\* own and 3 repeated words
Candidates(code) ==
    {Bag(code, shared, own, repeats) :
        <<shared, own, repeats>> \in {c \in {0, 8} \X {0, 2, 13} \X {0, 3} :
                                        c[3] > 0 => c[1] + c[2] > 0}}

\* the key sentences are not empty
KeySentences ==
    LET Some(code) == Candidates(code) \ {Bag(code, 0, 0, 0)}
    IN  {<<>>} \cup {<<a>> : a \in Some(102)} \cup (Some(102) \X Some(103))

InitMerge ==
    /\ InitSelf
    /\ request \in [op : {"_realistic_combination"}, bart_summary : Candidates(101),
                    key_sentences : KeySentences, type_specific : Candidates(104),
                    action_focused : Candidates(105), meeting_type : {"general"}]

RealisticCombination ==
    /\ request.op = "_realistic_combination"
    /\ ncalls = 0
    /\ ret' = Return(_realistic_combination(request.bart_summary, request.key_sentences,
                                            request.type_specific, request.action_focused,
                                            request.meeting_type))
    /\ ncalls' = ncalls + 1
    /\ UNCHANGED <<self_fields, app_state, now, request, prev>>

NextMerge == RealisticCombination

SpecMerge == InitMerge /\ [][NextMerge]_vars

(***************************************************************************)
(* Specification of the key sentence extraction                             *)
(***************************************************************************)
MaxKeySents == 7

\* a sentence as <<words, keyword halves>>: three plain words; twenty plain
\* words; twenty words with one filler word; twelve words with one decision
\* keyword
SentenceKinds == {<<3, 0>>, <<20, 0>>, <<20, -1>>, <<12, 5>>}

KeyTranscripts ==
    {Layout(0, [k \in DOMAIN kinds |-> kinds[k][1]], r) @@ [keywords |-> [k \in DOMAIN kinds |-> kinds[k][2]]] :
        kinds \in SeqsUpTo(SentenceKinds, MaxKeySents), r \in 0..MaxPad}

InitKeySentences ==
    /\ InitSelf
    /\ request \in [op : {"_extract_key_sentences_realistic"}, transcript : KeyTranscripts]

ExtractKeySentences ==
    /\ request.op = "_extract_key_sentences_realistic"
    /\ ncalls = 0
    /\ ret' = Return(_extract_key_sentences_realistic(request.transcript))
    /\ ncalls' = ncalls + 1
    /\ UNCHANGED <<self_fields, app_state, now, request, prev>>

NextKeySentences == ExtractKeySentences

SpecKeySentences == InitKeySentences /\ [][NextKeySentences]_vars

(***************************************************************************)
(* MeetingAI.get_health_status.  The clock is in milliseconds.              *)
(***************************************************************************)
\* current_time - self._last_health_check < 30 (line 115), in seconds
HealthCacheSeconds == 30

MaxClock == 62000

MaxHealthCalls == 4

\* lines 120-125
HealthStatus(gpu, current_time) ==
    [ai_service |-> "ready", models_loaded |-> TRUE, gpu_available |-> gpu,
     timestamp |-> current_time]

\* lines 133-137: self.summarizer is read and the attribute is missing
HealthError(current_time) ==
    [ai_service |-> "error", error |-> "AttributeError", timestamp |-> current_time]

\* a variant that keeps the cached status for 30 seconds inclusive
get_health_status_inclusive(summarizer, cached, last, gpu, current_time) ==
    IF cached # NoResult /\ current_time - last <= HealthCacheSeconds * 1000
    THEN [status |-> cached, cached |-> cached, last |-> last]
    ELSE IF summarizer = "unset"
    THEN [status |-> HealthError(current_time), cached |-> cached, last |-> last]
    ELSE [status |-> HealthStatus(gpu, current_time),
          cached |-> HealthStatus(gpu, current_time), last |-> current_time]

\* the status returned and the two cache fields after the call
get_health_status(summarizer, cached, last, gpu, current_time) ==
    IF cached # NoResult /\ current_time - last < HealthCacheSeconds * 1000
    THEN [status |-> cached, cached |-> cached, last |-> last]
    ELSE IF summarizer = "unset"
    THEN [status |-> HealthError(current_time), cached |-> cached, last |-> last]
    ELSE [status |-> HealthStatus(gpu, current_time),
          cached |-> HealthStatus(gpu, current_time), last |-> current_time]

InitHealth ==
    /\ InitSelf
    /\ request = [op |-> "get_health_status"]

\* torch.cuda.is_available() is an input of the call
GetHealthStatus ==
    /\ request.op = "get_health_status"
    /\ ncalls < MaxHealthCalls
    /\ \E gpu \in BOOLEAN :
           LET r == get_health_status(self_summarizer, cached_health_status,
                                      last_health_check, gpu, now)
           IN  /\ ret' = Return(r.status)
               /\ cached_health_status' = r.cached
               /\ last_health_check' = r.last
    /\ prev' = ret
    /\ ncalls' = ncalls + 1
    /\ UNCHANGED <<mock_mode, self_summarizer, app_state, now, request>>

\* time passes between two calls
Wait ==
    /\ request.op = "get_health_status"
    /\ \E pause \in {1000, 29000} :
           /\ now + pause <= MaxClock
           /\ now' = now + pause
    /\ UNCHANGED <<self_fields, app_state, request, ret, prev, ncalls>>

NextHealth == GetHealthStatus \/ Wait

SpecHealth == InitHealth /\ [][NextHealth]_vars

(***************************************************************************)
(* Specification of the summarizer entry points                             *)
(***************************************************************************)
SummaryRequests ==
    [op : {"_validate_input"}, transcript : Transcripts, meeting_type : MeetingTypes]
    \cup
    [op : {"summarize_meeting"}, transcript : Transcripts, meeting_type : MeetingTypes,
     summarizer : {"ok", "fail"}]
    \cup
    [op : {"ensemble_summarize"}, transcript : Transcripts, meeting_type : MeetingTypes,
     summarizer : {"ok", "fail"}]

InitSummary == InitSelf /\ request \in SummaryRequests

ValidateInput ==
    /\ request.op = "_validate_input"
    /\ ncalls = 0
    /\ ret' = _validate_input(request.transcript, request.meeting_type)
    /\ ncalls' = ncalls + 1
    /\ UNCHANGED <<self_fields, app_state, now, request, prev>>

SummarizeMeeting ==
    /\ request.op = "summarize_meeting"
    /\ ncalls = 0
    /\ ret' = summarize_meeting(mock_mode, request.transcript, request.meeting_type,
                                request.summarizer)
    /\ ncalls' = ncalls + 1
    /\ UNCHANGED <<self_fields, app_state, now, request, prev>>

EnsembleSummarize ==
    /\ request.op = "ensemble_summarize"
    /\ ncalls = 0
    /\ ret' = Return(ensemble_summarize(mock_mode, request.transcript, request.meeting_type,
                                        request.summarizer, now))
    /\ ncalls' = ncalls + 1
    /\ UNCHANGED <<self_fields, app_state, now, request, prev>>

NextSummary == ValidateInput \/ SummarizeMeeting \/ EnsembleSummarize

SpecSummary == InitSummary /\ [][NextSummary]_vars

(***************************************************************************)
(* MeetingAI.extract_key_insights.  A transcript is read as its sentences,  *)
(* each with the insight keywords it contains and whether it has more than  *)
(* 30 characters, and as what _create_real_insights counts in it.           *)
(***************************************************************************)
MaxInsightSents == 2

MaxThemes == 3

insight_families ==
    <<[label |-> "Decision made",
       keywords |-> <<"decided", "agreed", "concluded", "resolved", "approved", "rejected",
                      "confirmed", "finalized", "determined", "established">>],
      [label |-> "Risk identified",
       keywords |-> <<"risk", "concern", "issue", "problem", "challenge", "obstacle",
                      "barrier", "threat", "vulnerability", "weakness">>],
      [label |-> "Opportunity",
       keywords |-> <<"opportunity", "potential", "growth", "improvement", "benefit",
                      "advantage", "possibility", "chance", "prospect", "upside">>],
      [label |-> "Financial insight",
       keywords |-> <<"budget", "cost", "revenue", "profit", "investment", "financial",
                      "money", "dollar", "euro", "price">>]>>

\* the insights of one family (lines 1149-1155): one for each keyword of
\* the family found in a sentence of more than 30 characters, made of the
\* first such sentence
FamilyInsights(family, transcript) ==
    LET Hits(k) == {i \in DOMAIN transcript.sents :
                       family.keywords[k] \in transcript.sents[i].kws /\ transcript.sents[i].long}
        found == SelectSeq([k \in DOMAIN family.keywords |-> k], LAMBDA k : Hits(k) # {})
    IN  [j \in DOMAIN found |->
            [label |-> family.label,
             sentence |-> CHOOSE i \in Hits(found[j]) : \A h \in Hits(found[j]) : i <= h]]

RECURSIVE KeywordInsights(_, _)
KeywordInsights(f, transcript) ==
    IF f > Len(insight_families) THEN <<>>
    ELSE FamilyInsights(insight_families[f], transcript) \o KeywordInsights(f + 1, transcript)

\* some keyword of some family occurs in transcript.lower()
MentionsKeyword(transcript) ==
    \E f \in DOMAIN insight_families, i \in DOMAIN transcript.sents :
        Range(insight_families[f].keywords) \cap transcript.sents[i].kws # {}

Theme(rank) == [label |-> "Key theme", sentence |-> rank]

Remark(s) == [label |-> s, sentence |-> 0]

\* lines 1388-1419, before the final cut
RealInsights(transcript) ==
    LET themes == [r \in 1..transcript.themes |-> Theme(r)]
        budget == IF \E i \in DOMAIN transcript.sents : "budget" \in transcript.sents[i].kws
                  THEN <<Remark("Financial planning and budget allocation discussed")>>
                  ELSE <<>>
        deadline == IF transcript.deadline
                    THEN <<Remark("Time-sensitive deliverables identified")>>
                    ELSE <<>>
        team == IF transcript.team
                THEN <<Remark("Team coordination and collaboration emphasized")>>
                ELSE <<>>
        insights == themes \o budget \o deadline \o team
    IN  IF Len(insights) < 2
        THEN insights \o <<Remark("Meeting focused on strategic planning and execution"),
                           Remark("Action items and next steps clearly defined")>>
        ELSE insights

_create_real_insights(transcript) == Take(RealInsights(transcript), 5)

_mock_insights(transcript) ==
    <<Remark("Budget constraints require creative solutions"),
      Remark("Client satisfaction is the top priority"),
      Remark("Team collaboration has improved significantly"),
      Remark("Timeline adjustments may be necessary")>>

\* a variant that returns every insight it found
extract_key_insights_uncut(mock, transcript) ==
    IF mock THEN _mock_insights(transcript)
    ELSE IF transcript.tokenizer = "fail" /\ MentionsKeyword(transcript)
    THEN RealInsights(transcript)
    ELSE IF KeywordInsights(1, transcript) = <<>> THEN RealInsights(transcript)
    ELSE KeywordInsights(1, transcript)

extract_key_insights(mock, transcript) ==
    IF mock THEN _mock_insights(transcript)
    \* sent_tokenize is called, and raises, once a keyword is found
    ELSE IF transcript.tokenizer = "fail" /\ MentionsKeyword(transcript)
    THEN _create_real_insights(transcript)
    ELSE IF KeywordInsights(1, transcript) = <<>> THEN _create_real_insights(transcript)
    ELSE Take(KeywordInsights(1, transcript), 5)

\* the keywords the sentences of the model are made of
InsightVocabulary == {"decided", "agreed", "risk", "concern", "opportunity", "budget"}

InsightSentences ==
    [kws : {{}} \cup {{w} : w \in InsightVocabulary} \cup {InsightVocabulary}, long : BOOLEAN]

InsightTranscripts ==
    [sents : SeqsUpTo(InsightSentences, MaxInsightSents), themes : 0..MaxThemes,
     deadline : BOOLEAN, team : BOOLEAN, tokenizer : {"ok", "fail"}]

InitInsights ==
    /\ InitSelf
    /\ request \in [op : {"extract_key_insights"}, transcript : InsightTranscripts]
    /\ mock_mode => request.transcript.sents = <<>>

\* a variant that enters mock mode when the keyword scan raises
ExtractKeyInsightsEnteringMockMode ==
    /\ request.op = "extract_key_insights"
    /\ ncalls < MaxCalls
    /\ ret' = Return(extract_key_insights(mock_mode, request.transcript))
    /\ mock_mode' = (mock_mode \/ (request.transcript.tokenizer = "fail"
                                    /\ MentionsKeyword(request.transcript)))
    /\ prev' = ret
    /\ now' = now + 1
    /\ ncalls' = ncalls + 1
    /\ UNCHANGED <<self_summarizer, cached_health_status, last_health_check, app_state, request>>

ExtractKeyInsights ==
    /\ request.op = "extract_key_insights"
    /\ ncalls < MaxCalls
    /\ ret' = Return(extract_key_insights(mock_mode, request.transcript))
    /\ prev' = ret
    /\ now' = now + 1
    /\ ncalls' = ncalls + 1
    /\ UNCHANGED <<self_fields, app_state, request>>

NextInsights == ExtractKeyInsights

SpecInsights == InitInsights /\ [][NextInsights]_vars

(***************************************************************************)
(* Specification of _determine_priority_worldclass on its own: the task and *)
(* the rest of the transcript are read as the priority keywords they hold   *)
(***************************************************************************)
\* the keywords a text holds because it holds a longer one
Contained(tokens) ==
    tokens \cup (IF tokens \cap {"top priority", "high priority", "low priority"} # {}
                 THEN {"priority"} ELSE {})

TaskVocabulary == {"urgent", "asap", "later", "low priority"}

ContextVocabulary == Range(low_priority_keywords) \cup {"deadline"}

InitPriority ==
    /\ InitSelf
    /\ request \in [op : {"_determine_priority_worldclass"}, task : SUBSET TaskVocabulary,
                    context : SUBSET ContextVocabulary]

\* the transcript holds the task and the context
DeterminePriority ==
    /\ request.op = "_determine_priority_worldclass"
    /\ ncalls < MaxCalls
    /\ ret' = Return(PriorityOf(Contained(request.task),
                                Contained(request.task \cup request.context)))
    /\ prev' = ret
    /\ now' = now + 1
    /\ ncalls' = ncalls + 1
    /\ UNCHANGED <<self_fields, app_state, request>>

NextPriority == DeterminePriority

SpecPriority == InitPriority /\ [][NextPriority]_vars

(***************************************************************************)
(* Specification of the extractor on transcripts that name people: in the   *)
(* task, in the sentence around it, and as the label of its speaker         *)
(***************************************************************************)
Speakers == {"Sarah", "Mike"}

\* a task text of its own topic with the names around it
NamedText(topic, who, near, label) ==
    [form |-> "match", topic |-> topic, kw |-> "", who |-> who, near |-> near, label |-> label]

NamedTexts ==
    {NamedText(1, w, n, l) : w \in Speakers \cup {""}, n \in Speakers \cup {""},
                             l \in Speakers \cup {"", "sarah"}}

NamedTranscripts ==
    {ExtractorView(m, n, e, FALSE) :
        <<m, n>> \in {<<m, n>> \in ({<<>>, <<NamedText(1, "", "", ""), NamedText(2, "", "", "")>>}
                                   \cup {<<t>> : t \in NamedTexts}) \X {0, 1, 2} : n = 0 \/ n = Len(m)},
        e \in Embeds}

TeamLists ==
    {p \in SeqsUpTo(Speakers \cup {"Bob (PM"}, 2) : \A i, j \in DOMAIN p : i # j => p[i] # p[j]}

InitAssignment ==
    /\ InitSelf
    /\ request \in [op : {"extract_action_items"}, transcript : NamedTranscripts,
                    participants : TeamLists]

SpecAssignment == InitAssignment /\ [][NextActions]_vars

(***************************************************************************)
(* Specification of ensemble_summarize with a strategy that raises          *)
(***************************************************************************)
strategies == <<"abstractive", "key_sentences", "type_specific", "action_focused">>

\* ''
EmptyText == Layout(0, <<>>, 0)

\* lines 200-220 when the call of the strategy named by fault raises (of no
\* strategy when fault is "none"): only the first call stands in a try
ensemble_summarize_raising(mock, transcript, meeting_type, summarizer, t0, fault) ==
    LET bart_summary == IF fault = "abstractive" THEN EmptyText
                        ELSE _enhanced_bart_summarize(transcript, meeting_type, summarizer)
    IN  IF fault = "key_sentences" THEN Raise("Exception", "_extract_key_sentences_realistic")
        ELSE IF fault = "type_specific" THEN Raise("Exception", "_create_type_specific_summary")
        ELSE IF fault = "action_focused" THEN Raise("Exception", "_create_action_focused_summary")
        ELSE Return(_realistic_combination(bart_summary,
                                           _extract_key_sentences_realistic(transcript),
                                           _create_type_specific_summary(transcript, meeting_type),
                                           _create_action_focused_summary(mock, transcript, t0),
                                           meeting_type))

InitStrategies ==
    /\ InitSelf
    /\ request \in [op : {"ensemble_summarize"}, transcript : Transcripts,
                    meeting_type : MeetingTypes, summarizer : {"ok", "fail"},
                    fault : Range(strategies) \cup {"none"}]

EnsembleSummarizeRaising ==
    /\ request.op = "ensemble_summarize"
    /\ ncalls = 0
    /\ ret' = ensemble_summarize_raising(mock_mode, request.transcript, request.meeting_type,
                                         request.summarizer, now, request.fault)
    /\ ncalls' = ncalls + 1
    /\ UNCHANGED <<self_fields, app_state, now, request, prev>>

NextStrategies == EnsembleSummarizeRaising

SpecStrategies == InitStrategies /\ [][NextStrategies]_vars

(***************************************************************************)
(* Specification of the abstractive summaries over transcripts of every     *)
(* word count                                                               *)
(***************************************************************************)
MaxTranscriptWords == 600

\* one sentence of so many words, or nothing
SizedTranscripts ==
    {Layout(0, <<>>, 0)} \cup {Layout(0, <<w>>, 0) : w \in 1..MaxTranscriptWords}

InitLengths ==
    /\ InitSelf
    /\ request \in [op : {"summarize_meeting", "_enhanced_bart_summarize"},
                    transcript : SizedTranscripts, meeting_type : {"general"},
                    summarizer : {"ok", "fail"}]

EnhancedBartSummarize ==
    /\ request.op = "_enhanced_bart_summarize"
    /\ ncalls = 0
    /\ ret' = Return(_enhanced_bart_summarize(request.transcript, request.meeting_type,
                                              request.summarizer))
    /\ ncalls' = ncalls + 1
    /\ UNCHANGED <<self_fields, app_state, now, request, prev>>

NextLengths == SummarizeMeeting \/ EnhancedBartSummarize

SpecLengths == InitLengths /\ [][NextLengths]_vars

(***************************************************************************)
(* Specification of one MeetingAI instance serving calls of every public    *)
(* operation one after the other                                            *)
(***************************************************************************)
MaxInstanceClock == 4

\* requests that take the main path, the fallback path and the mock path of
\* each operation
InstanceRequests ==
    [op : {"summarize_meeting", "ensemble_summarize"},
     transcript : {Layout(0, <<>>, 0), Layout(0, <<MaxSentWords, MaxSentWords>>, 0)},
     meeting_type : {"general", "standup"}, summarizer : {"ok", "fail"}]
    \cup
    [op : {"extract_action_items"},
     transcript : {ExtractorView(<<TaskText(1, "")>>, n, "fail", FALSE) : n \in {0, 1}},
     participants : {<<>>, <<"Bob (PM">>}]
    \cup
    [op : {"calculate_health_score"},
     transcript : {Scored(ExtractorView(<<>>, 0, "fail", FALSE), w, 0, 0, 0, 0) :
                      w \in {0, LargeWordCount}},
     duration : {0, LongDuration}, participant_count : {1}]
    \cup
    [op : {"extract_key_insights"},
     transcript : [sents : {<<>>, <<[kws |-> {"decided"}, long |-> TRUE]>>}, themes : {0},
                   deadline : {FALSE}, team : {FALSE}, tokenizer : {"ok", "fail"}]]
    \cup
    {[op |-> "get_health_status"]}

InitInstance ==
    /\ InitSelf
    /\ request \in InstanceRequests

\* the caller turns to another request; ret, prev and ncalls are those of
\* the request under way
NextRequest ==
    /\ now < MaxInstanceClock
    /\ request' \in InstanceRequests
    /\ ret' = NoResult
    /\ prev' = NoResult
    /\ ncalls' = 0
    /\ UNCHANGED <<self_fields, app_state, now>>

NextInstance ==
    \/ SummarizeMeeting
    \/ EnsembleSummarize
    \/ ExtractActionItems
    \/ CalculateHealthScore
    \/ ExtractKeyInsights
    \/ GetHealthStatus
    \/ NextRequest

SpecInstance == InitInstance /\ [][NextInstance]_vars

(***************************************************************************)
(* The endpoint POST /api/meetings/process (backend/main.py)                *)
(***************************************************************************)
MaxBodySents == 2

\* the transcript of a request body, as each part of the analysis reads it:
\* the summarizer its sentences, the extractor and the scorer its matches,
\* the insights its keywords
Reading(text, tasks, remarks) == [text |-> text, tasks |-> tasks, remarks |-> remarks]

\* n matches of the basic patterns in a text of so many other words
TasksOf(n, other_words) ==
    Scored(ExtractorView([i \in 1..n |-> TaskText(i, "")], n, "fail", FALSE),
           other_words, 0, 0, 0, 0)

NoRemarks == [sents |-> <<>>, themes |-> 0, deadline |-> FALSE, team |-> FALSE, tokenizer |-> "ok"]

\* 'Meeting transcript'
Placeholder == Reading(Phrase("Meeting transcript", 2, -7), TasksOf(0, 2), NoRemarks)

\* MeetingTranscript.validate_transcript
validate_transcript(v) ==
    IF TextLen(v.text) = 0
    THEN Raise("ValueError", "Transcript cannot be empty")
    ELSE IF TextLen(strip(v.text)) > 0
    THEN Return([v EXCEPT !.text = strip(v.text)])
    ELSE Return(Placeholder)

\* the valid_types of MeetingTranscript.validate_meeting_type
request_valid_types == <<"general", "executive", "sprint_planning", "budget", "client", "technical">>

validate_meeting_type(v) ==
    IF v \notin Range(request_valid_types)
    THEN Raise("ValueError", "Invalid meeting type")
    ELSE Return(v)

validate_participants(v) == IF Len(v) = 0 THEN <<"Meeting Participant">> ELSE v

\* an Optional[int] is the empty sequence (None) or a sequence of one number
validate_duration(v) == IF v = <<>> THEN 30 ELSE IF v[1] <= 0 THEN 30 ELSE v[1]

\* MeetingTranscript(**body): the validated model, or the ValidationError
\* that gathers the errors of the field validators
MeetingTranscript(body) ==
    LET transcript == validate_transcript(body.transcript)
        meeting_type == validate_meeting_type(body.meeting_type)
    IN  IF transcript.kind = "raise" \/ meeting_type.kind = "raise"
        THEN Raise("ValidationError",
                   IF transcript.kind = "raise" THEN transcript.msg ELSE meeting_type.msg)
        ELSE Return([transcript |-> transcript.value,
                     participants |-> validate_participants(body.participants),
                     meeting_type |-> meeting_type.value,
                     duration |-> validate_duration(body.duration)])

\* the classes of the exception the framework raises for a request body that
\* fails validation, most specific first
RequestValidationErrorMro == <<"RequestValidationError", "ValidationError", "ValueError", "Exception">>

\* the status of the handlers registered on app: those of lines 48, 80 and
\* 88, and the one FastAPI() registers for its RequestValidationError
exception_handlers ==
    [RequestValidationError |-> 422, ValidationError |-> 400, ValueError |-> 400, Exception |-> 500]

\* the handler of the first class of the exception that has one
HandlerStatus(mro) ==
    exception_handlers[mro[CHOOSE i \in DOMAIN mro :
                               /\ mro[i] \in DOMAIN exception_handlers
                               /\ \A j \in 1..(i - 1) : mro[j] \notin DOMAIN exception_handlers]]

Response(status_code, body) == [kind |-> "response", status_code |-> status_code, value |-> body]

\* MeetingAI.generate_next_steps
generate_next_steps(action_items) ==
    IF action_items = <<>>
    THEN <<[step |-> "No specific next steps identified"]>>
    ELSE Take([i \in DOMAIN action_items |->
                  IF action_items[i].priority = "high"
                  THEN [step |-> "Urgent", task |-> action_items[i].task,
                        assignee |-> action_items[i].assignee]
                  ELSE IF action_items[i].priority = "medium"
                  THEN [step |-> "Follow up on", task |-> action_items[i].task]
                  ELSE [step |-> "Monitor", task |-> action_items[i].task]], 3)

\* meeting_{%Y%m%d_%H%M%S}: one id for each second
MeetingId(t) == <<"meeting", t \div 1000>>

\* a variant that stores the action items although the meeting row was refused
process_meeting_keeping_items(mock, transcript, summarizer, t0, rows) ==
    LET summary == summarize_meeting(mock, transcript.transcript.text, transcript.meeting_type,
                                     summarizer).value
        action_items == extract_action_items(mock, transcript.transcript.tasks,
                                             transcript.participants, t0)
        duration == IF transcript.duration = 0 THEN 60 ELSE transcript.duration
        health_score == calculate_health_score(mock, transcript.transcript.tasks, duration,
                                               Len(transcript.participants), t0)
        key_insights == extract_key_insights(mock, transcript.transcript.remarks)
        next_steps == generate_next_steps(action_items)
        meeting_id == MeetingId(t0)
        meeting == [id |-> meeting_id, transcript |-> transcript.transcript,
                    participants |-> transcript.participants,
                    meeting_type |-> transcript.meeting_type, duration |-> duration,
                    summary |-> summary, health_score |-> health_score,
                    key_insights |-> key_insights, next_steps |-> next_steps]
        items == {[id |-> action_items[i].id, meeting_id |-> meeting_id,
                   task |-> action_items[i].task, assignee |-> action_items[i].assignee,
                   due_date |-> action_items[i].due_date, priority |-> action_items[i].priority,
                   status |-> action_items[i].status] : i \in DOMAIN action_items}
        with_meeting == [rows EXCEPT !.meetings = @ \cup {meeting}]
        failed == Response(500, [detail |-> "Error processing meeting"])
    IN  \* the primary key of meetings
        IF \E row \in rows.meetings : row.id = meeting_id
        THEN [response |-> failed, db |-> [rows EXCEPT !.action_items = @ \cup items], ran |-> 1]
        \* the primary key of action_items
        ELSE IF \/ \E row \in rows.action_items, item \in items : row.id = item.id
                \/ \E i, j \in DOMAIN action_items : i # j /\ action_items[i].id = action_items[j].id
        THEN [response |-> failed, db |-> with_meeting, ran |-> 1]
        ELSE [response |-> Response(200, [meeting_id |-> meeting_id, summary |-> summary,
                                          action_items |-> action_items,
                                          health_score |-> health_score,
                                          key_insights |-> key_insights,
                                          next_steps |-> next_steps]),
              db |-> [with_meeting EXCEPT !.action_items = @ \cup items],
              ran |-> 1]

\* the body of process_meeting for a validated request: the response, the
\* rows committed, and whether the analysis was run
process_meeting(mock, transcript, summarizer, t0, rows) ==
    LET summary == summarize_meeting(mock, transcript.transcript.text, transcript.meeting_type,
                                     summarizer).value
        action_items == extract_action_items(mock, transcript.transcript.tasks,
                                             transcript.participants, t0)
        duration == IF transcript.duration = 0 THEN 60 ELSE transcript.duration
        health_score == calculate_health_score(mock, transcript.transcript.tasks, duration,
                                               Len(transcript.participants), t0)
        key_insights == extract_key_insights(mock, transcript.transcript.remarks)
        next_steps == generate_next_steps(action_items)
        meeting_id == MeetingId(t0)
        meeting == [id |-> meeting_id, transcript |-> transcript.transcript,
                    participants |-> transcript.participants,
                    meeting_type |-> transcript.meeting_type, duration |-> duration,
                    summary |-> summary, health_score |-> health_score,
                    key_insights |-> key_insights, next_steps |-> next_steps]
        items == {[id |-> action_items[i].id, meeting_id |-> meeting_id,
                   task |-> action_items[i].task, assignee |-> action_items[i].assignee,
                   due_date |-> action_items[i].due_date, priority |-> action_items[i].priority,
                   status |-> action_items[i].status] : i \in DOMAIN action_items}
        with_meeting == [rows EXCEPT !.meetings = @ \cup {meeting}]
        failed == Response(500, [detail |-> "Error processing meeting"])
    IN  \* the primary key of meetings
        IF \E row \in rows.meetings : row.id = meeting_id
        THEN [response |-> failed, db |-> rows, ran |-> 1]
        \* the primary key of action_items
        ELSE IF \/ \E row \in rows.action_items, item \in items : row.id = item.id
                \/ \E i, j \in DOMAIN action_items : i # j /\ action_items[i].id = action_items[j].id
        THEN [response |-> failed, db |-> with_meeting, ran |-> 1]
        ELSE [response |-> Response(200, [meeting_id |-> meeting_id, summary |-> summary,
                                          action_items |-> action_items,
                                          health_score |-> health_score,
                                          key_insights |-> key_insights,
                                          next_steps |-> next_steps]),
              db |-> [with_meeting EXCEPT !.action_items = @ \cup items],
              ran |-> 1]

\* the request as the framework serves it: the body is validated first
ServeProcessMeeting(mock, body, summarizer, t0, rows) ==
    LET transcript == MeetingTranscript(body)
    IN  IF transcript.kind = "raise"
        THEN [response |-> Response(HandlerStatus(RequestValidationErrorMro),
                                    [detail |-> transcript.msg]),
              db |-> rows, ran |-> 0]
        ELSE process_meeting(mock, transcript.value, summarizer, t0, rows)

BodyTranscripts ==
    {Reading(Layout(l, s, 0), TasksOf(n, SumSeq(s)), NoRemarks) :
        <<s, n>> \in {<<s, n>> \in SeqsUpTo(SentWords, MaxBodySents) \X (0..MaxBodySents) :
                         n <= Len(s)},
        l \in 0..MaxPad}

EndpointRequests ==
    [op : {"process_meeting"},
     body : [transcript : BodyTranscripts,
             participants : {<<>>, <<"Sarah">>},
             meeting_type : {"executive", "planning", "invalid_type"},
             duration : {<<>>, <<0>>, <<30>>}],
     summarizer : {"ok", "fail"}]

InitEndpoint == InitSelf /\ request \in EndpointRequests

\* one request served; the next one comes in the same second or a later one
ProcessMeeting ==
    /\ request.op = "process_meeting"
    /\ ncalls < MaxCalls
    /\ \E pause \in {1, 1000} :
           LET served == ServeProcessMeeting(mock_mode, request.body, request.summarizer, now, db)
           IN  /\ ret' = served.response
               /\ db' = served.db
               /\ analysed' = analysed + served.ran
               /\ now' = now + pause
    /\ prev' = ret
    /\ ncalls' = ncalls + 1
    /\ UNCHANGED <<self_fields, processing_tasks, in_flight, request>>

NextEndpoint == ProcessMeeting

SpecEndpoint == InitEndpoint /\ [][NextEndpoint]_vars

(***************************************************************************)
(* MeetingProcessor (backend/main.py).  The task ids uuid4 draws are fresh: *)
(* the model numbers them.  process_meeting_async awaits nothing, so no     *)
(* other handler runs between its two steps.                                *)
(***************************************************************************)
MaxTasks == 2

\* some task is between its registration and the end of its analysis
Running == \E id \in DOMAIN processing_tasks : processing_tasks[id].status = "processing"

\* meeting_data.dict() of validated bodies
MeetingData ==
    {MeetingTranscript([transcript |-> Reading(Layout(0, sents, 0), TasksOf(n, SumSeq(sents)),
                                               NoRemarks),
                        participants |-> <<"Sarah">>, meeting_type |-> "executive",
                        duration |-> <<30>>]).value :
        sents \in {<<MaxSentWords>>, <<LongSentWords, LongSentWords>>}, n \in {1}}

\* lines 682-687
RegisterTask ==
    /\ ~Running
    /\ Len(processing_tasks) < MaxTasks
    /\ \E meeting_data \in MeetingData, summarizer \in {"ok", "fail"} :
           /\ request' = [op |-> "process_meeting_async", meeting_data |-> meeting_data,
                          summarizer |-> summarizer]
           /\ processing_tasks' = Append(processing_tasks,
                                         [status |-> "processing", started_at |-> now,
                                          meeting_data |-> meeting_data])
    /\ ret' = NoResult
    /\ prev' = ret
    /\ UNCHANGED <<self_fields, db, analysed, in_flight, now, ncalls>>

\* lines 690-715
AsyncResult(mock, meeting_data, summarizer, t0) ==
    LET action_items == extract_action_items(mock, meeting_data.transcript.tasks,
                                             meeting_data.participants, t0)
    IN  [meeting_id |-> <<"async", t0 \div 1000>>,
         summary |-> summarize_meeting(mock, meeting_data.transcript.text,
                                       meeting_data.meeting_type, summarizer).value,
         action_items |-> action_items,
         health_score |-> calculate_health_score(mock, meeting_data.transcript.tasks,
                                                 meeting_data.duration,
                                                 Len(meeting_data.participants), t0),
         key_insights |-> extract_key_insights(mock, meeting_data.transcript.remarks),
         next_steps |-> generate_next_steps(action_items)]

\* a variant that marks every task failed when the analysis raises
RunAnalysisFailingAll ==
    /\ Running
    /\ request.op = "process_meeting_async"
    /\ \E fault \in BOOLEAN, pause \in {0, 1} :
           LET task_id == Len(processing_tasks)
           IN  /\ now' = now + pause
               /\ IF fault
                  THEN /\ processing_tasks' =
                             [id \in DOMAIN processing_tasks |->
                                 [status |-> "failed", started_at |-> processing_tasks[id].started_at,
                                  meeting_data |-> processing_tasks[id].meeting_data,
                                  error |-> "LookupError", failed_at |-> now']]
                       /\ ret' = Raise("LookupError", "punkt")
                  ELSE /\ processing_tasks' =
                             [processing_tasks EXCEPT ![task_id] =
                                 [status |-> "completed", started_at |-> @.started_at,
                                  meeting_data |-> @.meeting_data,
                                  result |-> AsyncResult(mock_mode, @.meeting_data,
                                                         request.summarizer, now),
                                  completed_at |-> now']]
                       /\ ret' = Return(task_id)
    /\ ncalls' = ncalls + 1
    /\ UNCHANGED <<self_fields, db, analysed, in_flight, request, prev>>

\* lines 689-728: the analysis returns, or one of its calls raises (the
\* tokenizer data is missing when _fallback_summary needs it); time passes
RunAnalysis ==
    /\ Running
    /\ request.op = "process_meeting_async"
    /\ \E fault \in BOOLEAN, pause \in {0, 1} :
           LET task_id == Len(processing_tasks)
           IN  /\ now' = now + pause
               /\ IF fault
                  THEN /\ processing_tasks' =
                             [processing_tasks EXCEPT ![task_id] =
                                 [status |-> "failed", started_at |-> @.started_at,
                                  meeting_data |-> @.meeting_data,
                                  error |-> "LookupError", failed_at |-> now']]
                       /\ ret' = Raise("LookupError", "punkt")
                  ELSE /\ processing_tasks' =
                             [processing_tasks EXCEPT ![task_id] =
                                 [status |-> "completed", started_at |-> @.started_at,
                                  meeting_data |-> @.meeting_data,
                                  result |-> AsyncResult(mock_mode, @.meeting_data,
                                                         request.summarizer, now),
                                  completed_at |-> now']]
                       /\ ret' = Return(task_id)
    /\ ncalls' = ncalls + 1
    /\ UNCHANGED <<self_fields, db, analysed, in_flight, request, prev>>

\* lines 730-732, for a registered id and for the one no task has yet
GetProcessingStatus ==
    /\ ~Running
    /\ ncalls < MaxTasks + MaxCalls
    /\ \E task_id \in 1..(Len(processing_tasks) + 1) :
           /\ request' = [op |-> "get_processing_status", task_id |-> task_id]
           /\ ret' = Return(IF task_id \in DOMAIN processing_tasks THEN processing_tasks[task_id]
                            ELSE [status |-> "not_found"])
    /\ prev' = ret
    /\ ncalls' = ncalls + 1
    /\ UNCHANGED <<self_fields, app_state, now>>

InitProcessor ==
    /\ InitSelf
    /\ request = [op |-> "MeetingProcessor"]

NextProcessor == RegisterTask \/ RunAnalysis \/ GetProcessingStatus

SpecProcessor == InitProcessor /\ [][NextProcessor]_vars

(***************************************************************************)
(* Specification of process_meeting requests served side by side (several  *)
(* workers on one database): a request commits its meeting row, and in a    *)
(* later step its action items                                              *)
(***************************************************************************)
MaxWorkers == 2

MaxRequests == 3

\* the meeting row of the request that started at t0
OwnMeeting(rows, t0) == {row \in rows.meetings : row.id = MeetingId(t0)}

\* lines 278-325: the analysis, db.add(meeting) and the first db.commit();
\* when the commit fails the request ends with status 500
BeginProcessMeeting ==
    /\ request.op = "process_meeting"
    /\ analysed < MaxRequests
    /\ Cardinality(in_flight) < MaxWorkers
    /\ \E transcript \in MeetingData, summarizer \in {"ok", "fail"}, pause \in {1, 1000} :
           \E served \in {process_meeting(mock_mode, transcript, summarizer, now, db)} :
               \E committed \in {OwnMeeting(served.db, now) # OwnMeeting(db, now)} :
                   /\ db' = IF committed THEN [db EXCEPT !.meetings = served.db.meetings]
                            ELSE served.db
                   /\ in_flight' = IF committed
                                   THEN in_flight \cup {[transcript |-> transcript,
                                                         summarizer |-> summarizer, t0 |-> now]}
                                   ELSE in_flight
                   /\ ret' = IF committed THEN ret ELSE served.response
                   /\ now' = now + pause
    /\ analysed' = analysed + 1
    /\ UNCHANGED <<self_fields, processing_tasks, request, prev, ncalls>>

\* lines 327-351: db.add(action_item) for each item, the second db.commit()
\* and the response
CommitActionItems ==
    /\ request.op = "process_meeting"
    /\ \E r \in in_flight :
           \E served \in {process_meeting(mock_mode, r.transcript, r.summarizer, r.t0,
                                          [db EXCEPT !.meetings = @ \ OwnMeeting(db, r.t0)])} :
               /\ db' = [db EXCEPT !.action_items = served.db.action_items]
               /\ ret' = served.response
               /\ in_flight' = in_flight \ {r}
    /\ prev' = ret
    /\ ncalls' = ncalls + 1
    /\ UNCHANGED <<self_fields, analysed, processing_tasks, request, now>>

InitInterleaved ==
    /\ InitSelf
    /\ request = [op |-> "process_meeting"]

NextInterleaved == BeginProcessMeeting \/ CommitActionItems

SpecInterleaved == InitInterleaved /\ [][NextInterleaved]_vars

(***************************************************************************)
(* Properties of the summarizer entry points                                *)
(***************************************************************************)
\* the characters of the transcript between its first and its last
\* non-blank character
TrimmedChars(transcript) == CoreChars(transcript.sents)

Blank(transcript) == transcript.sents = <<>>

ValidInput(transcript, meeting_type) ==
    /\ ~Blank(transcript)
    /\ TrimmedChars(transcript) >= 10
    /\ \E k \in DOMAIN valid_types : valid_types[k] = meeting_type

\* C5, as stated: when the transcript is empty, shorter than 10 characters
\* after trimming, or the meeting type is not recognised, the analysis
\* raises an input error to its caller and returns no value
C5_InvalidInputIsRaised ==
    (/\ ncalls >= 1
     /\ request.op = "summarize_meeting"
     /\ ~ValidInput(request.transcript, request.meeting_type)) => ret.kind = "raise"

\* C6: _validate_input raises ValueError for an empty or blank transcript,
\* for one of fewer than 10 characters after trimming and for a meeting
\* type outside the valid set, and returns True for any other input
C6_ValidateInput ==
    (ncalls >= 1 /\ request.op = "_validate_input") =>
        IF ValidInput(request.transcript, request.meeting_type)
        THEN ret = Return(TRUE)
        ELSE ret.kind = "raise" /\ ret.error = "ValueError"

\* a transcript of at least 10 trimmed characters refused for its type
C6_Witness ==
    /\ ncalls >= 1
    /\ request.op = "_validate_input"
    /\ ~Blank(request.transcript)
    /\ TrimmedChars(request.transcript) >= 10
    /\ request.meeting_type = "standup"
    /\ ret.kind = "raise"
    /\ ret.error = "ValueError"

\* C7: for a valid input, when every call of the abstractive summarizer
\* fails, summarize_meeting and ensemble_summarize return a summary that is
\* not empty, and raise nothing
C7_SummaryWithoutSummarizer ==
    (/\ ncalls >= 1
     /\ request.op \in {"summarize_meeting", "ensemble_summarize"}
     /\ request.summarizer = "fail"
     /\ ValidInput(request.transcript, request.meeting_type)) =>
        ret.kind = "return" /\ TextLen(ret.value) > 0

\* summarize_meeting fell back on the transcript itself, of one or two
\* sentences
C7_Witness ==
    /\ ncalls >= 1
    /\ request.op = "summarize_meeting"
    /\ request.summarizer = "fail"
    /\ ~mock_mode
    /\ ValidInput(request.transcript, request.meeting_type)
    /\ Len(request.transcript.sents) <= 2
    /\ ret = Return(request.transcript)

(***************************************************************************)
(* Properties of extract_action_items and calculate_health_score            *)
(***************************************************************************)
Called(op) == ncalls >= 1 /\ request.op = op /\ ret.kind = "return"

\* the call took the main pattern loop to its end
OnMainPath ==
    /\ Called("extract_action_items")
    /\ ~mock_mode
    /\ ~MainPathRaises(request.transcript, request.participants)

\* the call ended in _fallback_action_extraction
OnFallbackPath ==
    /\ Called("extract_action_items")
    /\ ~mock_mode
    /\ MainPathRaises(request.transcript, request.participants)

\* the matches the main loop does not skip for their length
Handled(transcript) ==
    SelectSeq(AllMatches(1, transcript), LAMBDA m : TaskChars(m) >= MinTaskChars)

\* C1: calculate_health_score returns a value between 0 and 10 (0 and 100
\* tenths), in normal and in mock mode, whatever calls came before
C1_HealthScoreInRange ==
    Called("calculate_health_score") => ret.value >= 0 /\ ret.value <= 100

\* a second call, in normal mode, whose sum of bonuses passes 10 and is cut
C1_Witness ==
    /\ Called("calculate_health_score")
    /\ ncalls >= 2
    /\ ~mock_mode
    /\ HealthSum(request.transcript, request.duration, request.participant_count, now) > 100
    /\ ret.value = 100

\* C2: extract_action_items returns at most 5 items, from the main loop,
\* from the fallback path and in mock mode
C2_AtMostFiveItems ==
    Called("extract_action_items") => Len(ret.value) <= MaxActionItems

\* the main loop accepted more than 5 items and 5 were returned
C2_Witness ==
    /\ OnMainPath
    /\ Len(PatternLoop(1, <<>>, request.transcript, request.participants, now, 0)) > MaxActionItems
    /\ Len(ret.value) = MaxActionItems

\* two items at different places of a list
Pairs(items) == {<<i, j>> \in (DOMAIN items) \X (DOMAIN items) : i # j}

SameButIds(items1, items2) ==
    /\ Len(items1) = Len(items2)
    /\ \A i \in DOMAIN items1 : [items1[i] EXCEPT !.id = <<>>] = [items2[i] EXCEPT !.id = <<>>]

C10_IdsDistinct ==
    Called("extract_action_items") =>
        \A pair \in Pairs(ret.value) : ret.value[pair[1]].id # ret.value[pair[2]].id

\* the clock stood still, and a skipped duplicate lies between two accepted
\* matches
C10_Witness ==
    /\ OnMainPath
    /\ ~request.transcript.ticks
    /\ Len(ret.value) = 2
    /\ LET h == Handled(request.transcript)
       IN  /\ Len(h) = 3
           /\ _is_similar_task_advanced(h[1], h[2], request.transcript.embed)
           /\ ~_is_similar_task_advanced(h[1], h[3], request.transcript.embed)

(***************************************************************************)
(* Properties of extract_key_insights and _determine_priority_worldclass    *)
(***************************************************************************)
\* C4: extract_key_insights returns at most 5 insights, from the keyword
\* scan, from _create_real_insights and in mock mode
C4_AtMostFiveInsights ==
    Called("extract_key_insights") => Len(ret.value) <= 5

\* the keyword scan found more than 5 insights and 5 were returned
C4_Witness ==
    /\ Called("extract_key_insights")
    /\ ~mock_mode
    /\ request.transcript.tokenizer = "ok"
    /\ Len(KeywordInsights(1, request.transcript)) > 5
    /\ Len(ret.value) = 5

\* C24: extract_key_insights returns at most one insight of each of the four
\* families, so at most 4 insights from the keyword scan
C24_OneInsightPerFamily ==
    Called("extract_key_insights") =>
        \A f \in DOMAIN insight_families :
            Cardinality({j \in DOMAIN ret.value : ret.value[j].label = insight_families[f].label}) <= 1

\* the low-priority keywords
LowVocabulary == {low_priority_keywords[k] : k \in DOMAIN low_priority_keywords}

\* the high-priority keywords
HighVocabulary == {high_priority_keywords[k] : k \in DOMAIN high_priority_keywords}

\* C9: a task that contains "urgent" and no low-priority keyword, in a
\* transcript whose only urgency keywords are those of the task, is given
\* the priority "high"
C9_UrgentIsHigh ==
    (/\ Called("_determine_priority_worldclass")
     /\ "urgent" \in request.task
     /\ Contained(request.task) \cap LowVocabulary = {}
     /\ Contained(request.task \cup request.context) \cap HighVocabulary
            = Contained(request.task) \cap HighVocabulary) => ret.value = "high"

\* "urgent" alone in the task, and eight low-priority keywords around it
C9_Witness ==
    /\ Called("_determine_priority_worldclass")
    /\ request.task = {"urgent"}
    /\ request.context = LowVocabulary \ {"low priority"}
    /\ ret.value = "high"

\* the priority by scores in which a keyword of the task weighs w and a
\* keyword of the transcript half of it; the scores are kept doubled
HalfWeighted(w, task_tokens, transcript_tokens) ==
    LET high == 2 * w * CountIn(high_priority_keywords, task_tokens)
                + w * CountIn(high_priority_keywords, transcript_tokens)
        low == 2 * w * CountIn(low_priority_keywords, task_tokens)
               + w * CountIn(low_priority_keywords, transcript_tokens)
    IN  IF high > low /\ high > 2 THEN "high"
        ELSE IF low > high /\ low > 2 THEN "low"
        ELSE "medium"

\* C17, as stated: the priority is decided from weighted keyword counts in
\* which one occurrence in the transcript weighs 0.5 times one occurrence in
\* the task (the task weighing 1 or 2): "high" exactly when the high score
\* exceeds the low score and 1, "low" exactly when the low score exceeds the
\* high score and 1, "medium" otherwise
C17_ContextWeighsHalf ==
    Called("_determine_priority_worldclass") =>
        \E w \in {1, 2} :
            ret.value = HalfWeighted(w, Contained(request.task),
                                     Contained(request.task \cup request.context))

\* C17, amended: one occurrence in the task weighs 2 and one occurrence in
\* the transcript weighs 0.5, a quarter of it; the priority is "high" exactly
\* when the high score exceeds the low score and 1, "low" exactly when the
\* low score exceeds the high score and 1, and "medium" in every other case
C17_ContextWeighsQuarter ==
    Called("_determine_priority_worldclass") =>
        LET task == Contained(request.task)
            transcript == Contained(request.task \cup request.context)
            high == 4 * CountIn(high_priority_keywords, task)
                    + CountIn(high_priority_keywords, transcript)
            low == 4 * CountIn(low_priority_keywords, task)
                   + CountIn(low_priority_keywords, transcript)
        IN  /\ ret.value = "high" <=> (high > low /\ high > 2)
            /\ ret.value = "low" <=> (low > high /\ low > 2)
            /\ ret.value = "medium" <=> ~(high > low /\ high > 2) /\ ~(low > high /\ low > 2)

\* "asap" in the task and four low-priority keywords around it: high by the
\* scores 2.5 and 2, where a task keyword of weight 1 would lose by 1.5 to 2
C17_Witness ==
    /\ Called("_determine_priority_worldclass")
    /\ request.task = {"asap"}
    /\ Cardinality(request.context) = 4
    /\ "deadline" \notin request.context
    /\ ret.value = "high"

(***************************************************************************)
(* Properties of the order, the assignees and the tasks of the action items *)
(***************************************************************************)
\* the items the main loop accepted, in the order of their discovery
Survivors == PatternLoop(1, <<>>, request.transcript, request.participants, now, 0)

Rank(item) == CASE item.priority = "high" -> 3 [] item.priority = "low" -> 1 [] OTHER -> 2

\* the places of the returned items among the survivors surv, or <<>> when
\* some returned item is no survivor
Places(surv) ==
    IF \A i \in DOMAIN ret.value : \E k \in DOMAIN surv : surv[k].task = ret.value[i].task
    THEN [i \in DOMAIN ret.value |-> CHOOSE k \in DOMAIN surv : surv[k].task = ret.value[i].task]
    ELSE <<>>

\* the survivor at place k comes before the one at place l in the order by
\* priority and then discovery
Before(surv, k, l) ==
    \/ Rank(surv[k]) > Rank(surv[l])
    \/ Rank(surv[k]) = Rank(surv[l]) /\ k < l

\* C11: the returned list has high before medium before low priority, items
\* of one priority in the order of their discovery, and it holds the first
\* 5 of that order over all the survivors of the deduplication
C11_OrderedFirstFive ==
    /\ Called("extract_action_items") =>
           \A i, j \in DOMAIN ret.value : i < j => Rank(ret.value[i]) >= Rank(ret.value[j])
    /\ OnMainPath =>
           LET surv == Survivors
               at == Places(surv)
           IN  /\ Len(ret.value) = Min(5, Len(surv))
               /\ Len(at) = Len(ret.value)
               /\ \A i, j \in DOMAIN at : i < j => Before(surv, at[i], at[j])
               /\ \A k \in DOMAIN surv :
                      k \notin Range(at) => \A i \in DOMAIN at : Before(surv, at[i], k)
    /\ OnFallbackPath =>
           LET found == AllMatches(1, [request.transcript EXCEPT !.extended = <<>>])
           IN  /\ Len(ret.value) = Min(5, Len(found))
               /\ \A i \in DOMAIN ret.value : ret.value[i].task = found[i]

\* more than 5 survivors, and a survivor left out that was discovered before
\* a returned item of higher priority
C11_Witness ==
    /\ OnMainPath
    /\ LET surv == Survivors
           at == Places(surv)
       IN  /\ Len(surv) > 5
           /\ \E k \in DOMAIN surv, i \in DOMAIN at :
                  k \notin Range(at) /\ k < at[i] /\ Rank(surv[at[i]]) > Rank(surv[k])

\* C12, as stated: every returned action item has an assignee that is one of
\* the given participant names or "TBD", and that is "TBD" when the
\* participant list is empty, on the main path, the fallback path and in
\* mock mode
C12_AssigneeIsParticipant ==
    Called("extract_action_items") =>
        \A i \in DOMAIN ret.value :
            /\ ret.value[i].assignee \in Range(request.participants) \cup {"TBD"}
            /\ request.participants = <<>> => ret.value[i].assignee = "TBD"

\* C16: when no participant name occurs inside the task text, the assignee
\* is the participant named in the transcript sentence most similar to the
\* task, by embedding or, when the embedding fails, by lexical matching;
\* this rule goes before the speaker label and the first participant
C16_ContextAssigneeFirst ==
    OnMainPath =>
        \A i \in DOMAIN ret.value :
            LET task == ret.value[i].task
            IN  (task.who \notin Range(request.participants)
                 /\ task.near \in Range(request.participants)) =>
                    ret.value[i].assignee = task.near

\* the candidates of H that the accepted list surv holds, each text at the
\* place of its first discovery
KeptPlaces(H, surv) ==
    {k \in DOMAIN H : /\ \E i \in DOMAIN surv : surv[i].task = H[k]
                      /\ \A j \in 1..(k - 1) : H[j] # H[k]}

\* the elements of H at the places K, in their order
AtPlaces(H, K) == SelectSeq([k \in DOMAIN H |-> <<k, H[k]>>], LAMBDA e : e[1] \in K)

\* C18: in the pattern loop a candidate is dropped exactly when it is a
\* duplicate of a task accepted before it (cosine similarity above 0.8 or,
\* when the embedding call fails, Jaccard similarity above 0.7); the accepted
\* tasks stay, in the order of their discovery, so that every dropped
\* candidate has a duplicate accepted before it, and the returned items are
\* accepted ones
C18_FirstOfDuplicatesKept ==
    OnMainPath =>
        LET H == Handled(request.transcript)
            surv == Survivors
            embed == request.transcript.embed
            Duplicate(a, b) == IF embed = "fail" THEN JaccardAbove70(a, b)
                               ELSE CosineAbove80(a, b, embed)
            K == KeptPlaces(H, surv)
            kept == AtPlaces(H, K)
        IN  /\ \A k \in DOMAIN H :
                   k \in K <=> ~\E j \in K : j < k /\ Duplicate(H[j], H[k])
            /\ Len(surv) = Len(kept)
            /\ \A i \in DOMAIN surv : surv[i].task = kept[i][2]
            /\ \A i \in DOMAIN ret.value : \E k \in K : ret.value[i].task = H[k]
            /\ Len(surv) <= MaxActionItems =>
                   \A k \in K : \E i \in DOMAIN ret.value : ret.value[i].task = H[k]

\* the embedding works, and a candidate was dropped for a task of another
\* text that was accepted before it and is returned
C18_Witness ==
    /\ OnMainPath
    /\ request.transcript.embed # "fail"
    /\ LET H == Handled(request.transcript)
       IN  \E j, k \in DOMAIN H :
               /\ j < k
               /\ H[j] # H[k]
               /\ CosineAbove80(H[j], H[k], request.transcript.embed)
               /\ \E i \in DOMAIN ret.value : ret.value[i].task = H[j]
               /\ \A i \in DOMAIN ret.value : ret.value[i].task # H[k]

\* C19: every match whose trimmed text is shorter than 10 characters is
\* discarded, so every action item returned by extract_action_items has a
\* task of at least 10 characters, also when the result comes from the
\* fallback extraction taken after an exception
C19_TasksOfTenCharacters ==
    Called("extract_action_items") =>
        \A i \in DOMAIN ret.value : TaskChars(ret.value[i].task) >= MinTaskChars

\* C25: when some pattern matches a text of 10 characters or more,
\* extract_action_items returns at least one action item, whatever the
\* participants and whether the pattern loop or the fallback extraction ran
C25_LongMatchGivesAnItem ==
    (/\ Called("extract_action_items")
     /\ \E m \in Range(AllMatches(1, request.transcript)) : TaskChars(m) >= MinTaskChars)
        => Len(ret.value) > 0

(***************************************************************************)
(* Properties of the endpoint POST /api/meetings/process                    *)
(***************************************************************************)
\* the body's transcript is the empty string, or its meeting type is none of
\* the valid ones
Rejectable(body) ==
    \/ TextLen(body.transcript.text) = 0
    \/ body.meeting_type \notin Range(request_valid_types)

\* C13: a request to the meeting-processing endpoint whose transcript is
\* empty, or whose meeting type is not a valid one, is answered with status
\* 400, no analysis is run for it, and no meeting and no action item is stored
C13_InvalidRequestIs400 ==
    (request.op = "process_meeting" /\ ncalls > 0 /\ Rejectable(request.body)) =>
        /\ ret.status_code = 400
        /\ analysed = 0
        /\ db = [meetings |-> {}, action_items |-> {}]

(***************************************************************************)
(* Properties of ensemble_summarize                                         *)
\* C20: when the call of the abstractive summarizer fails inside
\* ensemble_summarize, the abstractive candidate is the empty string, and
\* the merged summary is the one of the other candidates alone
C20_FailedAbstractiveIsEmpty ==
    (Called("ensemble_summarize") /\ request.summarizer = "fail") =>
        ret.value = _realistic_combination(
                        EmptyText,
                        _extract_key_sentences_realistic(request.transcript),
                        _create_type_specific_summary(request.transcript, request.meeting_type),
                        _create_action_focused_summary(mock_mode, request.transcript, now),
                        request.meeting_type)

\* the candidates of the request in the order of the strategies, each with
\* the number of words it must exceed to be considered
InOrder ==
    <<[text |-> request.bart_summary, least |-> 20]>>
    \o [k \in DOMAIN request.key_sentences |-> [text |-> request.key_sentences[k], least |-> 10]]
    \o <<[text |-> request.type_specific, least |-> 15],
         [text |-> request.action_focused, least |-> 15]>>

\* the place among the candidates in order of the part p of the summary
PlaceOf(p) == CHOOSE k \in DOMAIN InOrder : InOrder[k].text = p

SharedTokens(a, b) == Cardinality(TokenSet(a) \cap TokenSet(b))

\* C21, as stated: the parts of the merged summary stand in the order of the
\* strategies, no part shares more than 70% of its distinct tokens with a
\* part before it, and at most 4 parts are joined
C21_NoPartSharesTokenSet ==
    (Called("_realistic_combination") /\ ret.value.form = "combined") =>
        LET parts == ret.value.parts
        IN  /\ Len(parts) <= 4
            /\ \A i, j \in DOMAIN parts :
                   i < j => /\ PlaceOf(parts[i]) < PlaceOf(parts[j])
                            /\ 10 * SharedTokens(parts[j], parts[i])
                                   <= 7 * Cardinality(TokenSet(parts[j]))

\* C21, amended: the candidates are considered in the order of the
\* strategies, and a candidate is dropped when the distinct tokens it shares
\* with an accepted candidate number more than 70% of its words, repeated
\* words counted; hence no part shares with a part before it more tokens
\* than 70% of its number of words, every candidate of more than 8 words left
\* out before 4 were accepted has such a share with a part before it, and at
\* most 4 parts are joined
C21_NoPartSharesWordCount ==
    Called("_realistic_combination") =>
        LET parts == IF ret.value.form = "combined" THEN ret.value.parts ELSE <<>>
            Eligible(k) == /\ TextLen(InOrder[k].text) > 0
                           /\ WordCount(InOrder[k].text) > InOrder[k].least
                           /\ WordCount(InOrder[k].text) > 8
            Duplicate(c, e) == 10 * SharedTokens(c, e) > 7 * WordCount(c)
            Earlier(k) == {i \in DOMAIN parts : PlaceOf(parts[i]) < k}
        IN  /\ Len(parts) <= 4
            /\ ret.value.form = "combined" => parts # <<>>
            /\ \A i \in DOMAIN parts :
                   /\ \E k \in DOMAIN InOrder : InOrder[k].text = parts[i] /\ Eligible(k)
                   /\ \A j \in DOMAIN parts :
                          i < j => /\ PlaceOf(parts[i]) < PlaceOf(parts[j])
                                   /\ ~Duplicate(parts[j], parts[i])
            /\ \A k \in DOMAIN InOrder :
                   (/\ Eligible(k)
                    /\ InOrder[k].text \notin Range(parts)
                    /\ Cardinality(Earlier(k)) < 4) =>
                       \E i \in Earlier(k) : Duplicate(InOrder[k].text, parts[i])

\* a key sentence of 10 distinct words, 8 of them shared with the abstractive
\* summary before it, and 3 words said twice: accepted as the second part
C21_Witness ==
    /\ Called("_realistic_combination")
    /\ ret.value.form = "combined"
    /\ Len(ret.value.parts) >= 2
    /\ ret.value.parts[1] = request.bart_summary
    /\ ret.value.parts[2] = Bag(102, 8, 2, 3)
    /\ request.bart_summary.shared = 8

(***************************************************************************)
\* C14: in ensemble_summarize an exception raised by any single one of the
\* four strategies is not propagated: the call still returns a summary, the
\* one built from the other candidates or the fallback template
C14_StrategyFailureIsAbsorbed ==
    (request.op = "ensemble_summarize" /\ ncalls > 0 /\ request.fault # "none") =>
        /\ ret.kind = "return"
        /\ TextLen(ret.value) > 0

(***************************************************************************)
(* Properties of the key sentence extraction                                *)
(***************************************************************************)
\* the score of the sentence at place k of the request's transcript
ScoreAt(k) ==
    LET sentences == SplitSentences(request.transcript)
    IN  SentenceScore(sentences[k], k - 1, Len(sentences))

\* the places of the request's transcript that hold a sentence scoring above
\* the threshold
Accepted ==
    {k \in 1..Len(request.transcript.sents) : ScoreAt(k) > KeyThreshold}

\* place a comes before place b in the order of the result
RanksBefore(a, b) ==
    ScoreAt(a) > ScoreAt(b) \/ (ScoreAt(a) = ScoreAt(b) /\ a < b)

KeySentencesReturned ==
    /\ request.op = "_extract_key_sentences_realistic"
    /\ ret.kind = "return"

\* C22: the result holds at most 5 sentences, each scoring strictly above the
\* threshold, in descending order of score with equal scores in the order of
\* the transcript, and an accepted sentence that is left out ranks after
\* every returned one
C22_TopFiveByScore ==
    KeySentencesReturned =>
        LET result == ret.value
            place == [j \in DOMAIN result |-> result[j].id]
            returned == {place[j] : j \in DOMAIN result}
        IN  /\ Len(result) <= 5
            /\ \A j \in DOMAIN result :
                   /\ place[j] \in Accepted
                   /\ result[j] = SplitSentences(request.transcript)[place[j]]
            /\ \A i, j \in DOMAIN result : i < j => RanksBefore(place[i], place[j])
            /\ \A k \in Accepted \ returned :
                   /\ Len(result) = 5
                   /\ \A j \in DOMAIN result : RanksBefore(place[j], k)

\* more than five sentences are accepted, two returned ones tie, a sentence
\* scores exactly the threshold, and the result is not in transcript order
C22_Witness ==
    /\ KeySentencesReturned
    /\ Cardinality(Accepted) > 5
    /\ Len(ret.value) = 5
    /\ \E i, j \in DOMAIN ret.value : i < j /\ ScoreAt(ret.value[i].id) = ScoreAt(ret.value[j].id)
    /\ \E i, j \in DOMAIN ret.value : i < j /\ ret.value[i].id > ret.value[j].id
    /\ \E k \in 1..Len(request.transcript.sents) : ScoreAt(k) = KeyThreshold

\* place i (from 0) of n is the first, the last, or in the first or the last
\* 30% of the sequence
AtTheEdges(i, n) ==
    i = 0 \/ i = n - 1 \/ 10 * i < 3 * n \/ 10 * i >= 7 * n

\* C23: the first sentence, the last sentence and every sentence in the first
\* or the last 30% of the sequence get a positional bonus above the flat one,
\* and every other sentence gets the flat bonus of the middle
C23_EdgesGetBonus ==
    KeySentencesReturned =>
        LET n == Len(SplitSentences(request.transcript))
            flat == 1
        IN  \A i \in 0..(n - 1) :
                IF AtTheEdges(i, n) THEN PositionScore(i, n) > flat
                ELSE PositionScore(i, n) = flat

(***************************************************************************)
(* Properties of get_health_status                                          *)
(***************************************************************************)
HealthCall == request.op = "get_health_status" /\ ncalls' = ncalls + 1

\* C27: a call less than 30 seconds after the cached status was computed
\* returns that status, timestamp included, and leaves the cache alone; a
\* call 30 seconds or more after it returns a status computed now and
\* caches it; an error status is never put in the cache
C27_CachedForThirtySeconds ==
    [][HealthCall =>
          LET fresh == /\ cached_health_status # NoResult
                       /\ now - cached_health_status.timestamp < 30 * 1000
          IN  /\ fresh => /\ ret'.value = cached_health_status
                          /\ UNCHANGED <<cached_health_status, last_health_check>>
              /\ (~fresh /\ cached_health_status # NoResult) =>
                     /\ ret'.value.timestamp = now
                     /\ cached_health_status' = ret'.value
              /\ ret'.value.timestamp = now
                     => (cached_health_status' = ret'.value \/ ret'.value.ai_service = "error")
              /\ cached_health_status' # NoResult => cached_health_status'.ai_service = "ready"
              /\ ret'.value.ai_service = "error"
                     => UNCHANGED <<cached_health_status, last_health_check>>]_vars

\* three calls: the second returned the status computed at 0, the third, 30
\* seconds after the first, a status computed then
C27_Witness ==
    /\ request.op = "get_health_status"
    /\ ncalls = 3
    /\ now = 30000
    /\ prev.kind = "return" /\ prev.value.timestamp = 0
    /\ ret.value.timestamp = 30000
    /\ cached_health_status = ret.value

(***************************************************************************)
(* Properties of the instance                                               *)
(***************************************************************************)
PublicOperations ==
    {"summarize_meeting", "ensemble_summarize", "extract_action_items",
     "calculate_health_score", "extract_key_insights"}

\* C26: a call of summarize_meeting, ensemble_summarize,
\* extract_action_items, calculate_health_score or extract_key_insights
\* leaves mock_mode, the summarizer and the health-status cache of the
\* instance as they were, and its arguments too
C26_OperationsKeepTheFields ==
    [][(request.op \in PublicOperations /\ ncalls' = ncalls + 1)
          => UNCHANGED <<self_fields, request>>]_vars

\* a fallback path was taken on an instance whose health status is cached
C26_Witness ==
    /\ Called("extract_key_insights")
    /\ ~mock_mode
    /\ request.transcript.tokenizer = "fail"
    /\ MentionsKeyword(request.transcript)
    /\ cached_health_status # NoResult

(***************************************************************************)
(* Properties of the length bounds                                          *)
(***************************************************************************)
\* the summarizer was called and answered
Abstracted ==
    /\ ncalls >= 1
    /\ request.op \in {"summarize_meeting", "_enhanced_bart_summarize"}
    /\ ret.kind = "return"
    /\ ret.value.form = "generated"

\* C28: whatever the word count of the transcript, the bounds handed to the
\* summarizer by summarize_meeting and by _enhanced_bart_summarize satisfy
\* 5 <= min_length < max_length
C28_LengthBoundsOrdered ==
    Abstracted => /\ 5 <= ret.value.min_length
                  /\ ret.value.min_length < ret.value.max_length

\* a transcript of the third tier, long enough for max_length to reach its
\* upper limit 120
C28_Witness ==
    /\ Abstracted
    /\ request.op = "_enhanced_bart_summarize"
    /\ WordCount(request.transcript) >= 150
    /\ ret.value.max_length = 120
    /\ ret.value.min_length = 50

(***************************************************************************)
(* Properties of MeetingProcessor                                           *)
(***************************************************************************)
\* C29: a task enters processing_tasks with status 'processing'; the end of
\* its analysis moves it to 'completed' with a result or to 'failed' with an
\* error; a task that is 'completed' or 'failed' is never changed again;
\* and the status of an id that no task has is 'not_found'
C29_TaskLifeCycle ==
    [][/\ \A id \in DOMAIN processing_tasks :
              /\ id \in DOMAIN processing_tasks'
              /\ processing_tasks[id].status \in {"completed", "failed"}
                     => processing_tasks'[id] = processing_tasks[id]
              /\ processing_tasks[id].status = "processing"
                     => \/ processing_tasks'[id] = processing_tasks[id]
                        \/ /\ processing_tasks'[id].status = "completed"
                           /\ "result" \in DOMAIN processing_tasks'[id]
                        \/ /\ processing_tasks'[id].status = "failed"
                           /\ "error" \in DOMAIN processing_tasks'[id]
              /\ (request.op = "process_meeting_async" /\ ncalls' = ncalls + 1
                  /\ processing_tasks[id].status = "processing")
                     => processing_tasks'[id].status \in {"completed", "failed"}
       /\ \A id \in (DOMAIN processing_tasks') \ (DOMAIN processing_tasks) :
              processing_tasks'[id].status = "processing"
       /\ (request'.op = "get_processing_status" /\ ncalls' = ncalls + 1
           /\ request'.task_id \notin DOMAIN processing_tasks)
              => ret'.value = [status |-> "not_found"]]_vars

\* one task completed and one failed, and the status of an id that no task
\* has was asked after them
C29_Witness ==
    /\ Len(processing_tasks) = 2
    /\ \E i, j \in 1..2 :
           /\ processing_tasks[i].status = "completed"
           /\ processing_tasks[j].status = "failed"
    /\ request.op = "get_processing_status"
    /\ request.task_id = 3
    /\ ret.value.status = "not_found"

(***************************************************************************)
(* Properties of the stored rows                                            *)
(***************************************************************************)
\* C30: however the requests interleave, an action item is stored only when
\* the meeting it refers to is already committed, and the step of a request
\* whose meeting row cannot be committed stores nothing
C30_MeetingBeforeItems ==
    [][/\ \A item \in db'.action_items \ db.action_items :
              \E row \in db.meetings : row.id = item.meeting_id
       /\ db.meetings \subseteq db'.meetings
       /\ (analysed' = analysed + 1 /\ db'.meetings = db.meetings)
              => (db' = db /\ in_flight' = in_flight)]_vars

\* a request failed on the meeting id of another one in the same second,
\* whose action items were stored afterwards
C30_Witness ==
    /\ request.op = "process_meeting"
    /\ analysed >= 2
    /\ Cardinality(db.meetings) = 1
    /\ prev.kind = "response" /\ prev.status_code = 500
    /\ ret.kind = "response" /\ ret.status_code = 200
    /\ db.action_items # {}

(***************************************************************************)
(* Properties of the content density of calculate_health_score              *)
(***************************************************************************)
\* the adjustment, in tenths, when the density is the words of each minute:
\* word_count / duration above 25, where density / 12 exceeds 2.0, or below 15
WordsPerMinuteAdjustment(word_count, duration) ==
    IF word_count > 25 * duration
    THEN Min((10 * word_count) \div (12 * duration), 20)
    ELSE IF word_count < 15 * duration THEN -8 ELSE 0

\* C15: in calculate_health_score the content density is the word count
\* divided by the duration in minutes; the score gains min(density/12, 2.0)
\* when the density is above 25, loses 0.8 when it is below 15, and is not
\* adjusted in between
C15_DensityIsWordsPerMinute ==
    (Called("calculate_health_score") /\ ~mock_mode /\ request.duration > 0) =>
        ret.value = Min(HealthSum(request.transcript, request.duration,
                                  request.participant_count, now)
                        - DensityAdjustment(SplitCount(request.transcript), request.duration)
                        + WordsPerMinuteAdjustment(SplitCount(request.transcript),
                                                   request.duration),
                        100)

====
